---- MODULE Spec2Model ----
(***************************************************************************)
(* A model of bunnyctl's diff engine (diffFiles, diffDirectories,          *)
(* diffPaths) and sync engine (uploadFile, uploadDirectory, uploadPath),   *)
(* together with the storage client they call (BunnyStorage) and the       *)
(* helpers of util.ts.                                                     *)
(*                                                                         *)
(* Strings that the code takes apart (paths, hex digests) are sequences of *)
(* tokens: a path is a sequence whose elements are "/" or a name, a hex    *)
(* string is a sequence of one-character strings.  A local path is the     *)
(* sequence of names below the path the operation was started on.          *)
(***************************************************************************)
EXTENDS Integers, Sequences, FiniteSets, TLC

VARIABLES
    local,      \* the local filesystem below the path given to the operation
    remote,     \* the remote store: the root directory of the storage zone
    lorder,     \* the order in which fs.readdir lists names
    rorder,     \* the order in which the server lists names
    options,    \* uploadPath's options: [recursive, overwrite]
    remoteArg,  \* uploadPath's remotePath argument
    run,        \* which uploadPath call of the session is running (1, 2, ...)
    pc,         \* the await the call in progress is suspended at
    stack,      \* the uploadDirectory calls in progress, innermost last
    cur,        \* the arguments and locals of the call in progress
    log,        \* the storage calls, filesystem calls and callbacks of this run
    outcome,    \* what the call of this run returned or threw
    prev,       \* the outcome of the previous run
    interfered, \* whether another party has changed the remote store or the local tree
    tasks,      \* the diffPaths calls made so far, by local path
    settled,    \* the local paths of the diffPaths calls that have settled, in that order
    darg        \* diffPaths' top-level arguments: [recursive, remotePath]

vars == <<local, remote, lorder, rorder, options, remoteArg, run, pc, stack, cur,
          log, outcome, prev, interfered, tasks, settled, darg>>

uploadVars == <<options, remoteArg, run, pc, stack, cur, log, outcome, prev>>
diffVars == <<tasks, settled, darg>>

----------------------------------------------------------------------------
(* Bounds *)

\* file contents are 1..NumContents
NumContents == 2
\* the model's digest has DigestLen bytes
DigestLen == 2
\* uploadPath is called MaxRuns times in a session
MaxRuns == 2
\* the arrays given to the helpers of util.ts have at most MaxArrayLen elements
MaxArrayLen == 3
\* the strings given to hexToArray have at most MaxHexLen characters
MaxHexLen == 4
\* the path after the prefixes of a typed path has at most MaxPathLen characters
MaxPathLen == 2

Contents == 1..NumContents
Names == {"a", "b"}
SubNames == {"a"}

----------------------------------------------------------------------------
(* Sequences *)

Last(s) == s[Len(s)]
Front(s) == SubSeq(s, 1, Len(s) - 1)

RECURSIVE Perms(_)
Perms(S) ==
    IF S = {} THEN {<<>>}
    ELSE UNION {{<<x>> \o p : p \in Perms(S \ {x})} : x \in S}

RECURSIVE Flatten(_)
Flatten(ss) == IF ss = <<>> THEN <<>> ELSE Head(ss) \o Flatten(Tail(ss))

----------------------------------------------------------------------------
(* Trees: the local filesystem and the remote store *)

EmptyKids == [n \in {} |-> 0]
File(c) == [kind |-> "file", data |-> c, kids |-> EmptyKids]
Dir(k) == [kind |-> "dir", data |-> 0, kids |-> k]
Other == [kind |-> "other", data |-> 0, kids |-> EmptyKids]
Missing == [kind |-> "none", data |-> 0, kids |-> EmptyKids]

\* the directories over the names of `names` whose children are in `nodes`
Dirs(names, nodes) == {Dir(k) : k \in UNION {[S -> nodes] : S \in SUBSET names}}

RECURSIVE Lookup(_, _)
Lookup(node, names) ==
    IF names = <<>> THEN node
    ELSE IF node.kind = "dir" /\ Head(names) \in DOMAIN node.kids
         THEN Lookup(node.kids[Head(names)], Tail(names))
         ELSE Missing

\* the tree with the node at `names` replaced by `new`, directories created on the way
RECURSIVE Store(_, _, _)
Store(node, names, new) ==
    IF names = <<>> THEN new
    ELSE LET n == Head(names)
             k == IF node.kind = "dir" THEN node.kids ELSE EmptyKids
             old == IF n \in DOMAIN k THEN k[n] ELSE Missing
         IN Dir([m \in DOMAIN k \cup {n} |->
                    IF m = n THEN Store(old, Tail(names), new) ELSE k[m]])

\* the tree without the node at `names`
RECURSIVE Remove(_, _)
Remove(node, names) ==
    IF names = <<>> \/ node.kind # "dir" \/ Head(names) \notin DOMAIN node.kids THEN node
    ELSE IF Len(names) = 1
         THEN Dir([m \in DOMAIN node.kids \ {Head(names)} |-> node.kids[m]])
         ELSE Dir([node.kids EXCEPT ![Head(names)] = Remove(@, Tail(names))])

\* the local paths of the regular files of a tree, in any order
RECURSIVE FilePaths(_)
FilePaths(node) ==
    IF node.kind = "file" THEN {<<>>}
    ELSE IF node.kind = "dir"
         THEN UNION {{<<n>> \o p : p \in FilePaths(node.kids[n])} : n \in DOMAIN node.kids}
         ELSE {}

----------------------------------------------------------------------------
(* util.ts *)

\* crypto.subtle.digest("SHA-256", bytes): a digest of DigestLen bytes, distinct for
\* distinct contents of the model (no collision within Contents)
SHA256(data) == [i \in 1..DigestLen |-> (171 * data + 29 * i) % 256]

computeChecksum(data) == SHA256(data)

HexDigits == <<"0", "1", "2", "3", "4", "5", "6", "7", "8", "9",
               "a", "b", "c", "d", "e", "f">>
UpperDigits == <<"0", "1", "2", "3", "4", "5", "6", "7", "8", "9",
                 "A", "B", "C", "D", "E", "F">>

\* the value of a hexadecimal digit of either case, -1 for any other character
HexVal(c) ==
    IF \E i \in 1..16 : HexDigits[i] = c
    THEN (CHOOSE i \in 1..16 : HexDigits[i] = c) - 1
    ELSE IF \E i \in 1..16 : UpperDigits[i] = c
         THEN (CHOOSE i \in 1..16 : UpperDigits[i] = c) - 1
         ELSE -1

\* String.prototype.toUpperCase on a hex string
toUpperCase(hex) ==
    [i \in DOMAIN hex |->
        IF \E d \in 1..16 : HexDigits[d] = hex[i]
        THEN UpperDigits[CHOOSE d \in 1..16 : HexDigits[d] = hex[i]]
        ELSE hex[i]]

\* b.toString(16) for every byte, joined: a byte below 16 gives one digit
arrayToHexUnpadded(array) ==
    Flatten([i \in DOMAIN array |->
        IF array[i] < 16 THEN <<HexDigits[array[i] + 1]>>
        ELSE <<HexDigits[(array[i] \div 16) + 1], HexDigits[(array[i] % 16) + 1]>>])

\* the digits in upper case
arrayToHexUpperCase(array) ==
    Flatten([i \in DOMAIN array |->
        <<UpperDigits[(array[i] \div 16) + 1], UpperDigits[(array[i] % 16) + 1]>>])

\* b.toString(16).padStart(2, "0") for every byte, joined
arrayToHex(array) ==
    Flatten([i \in DOMAIN array |->
        <<HexDigits[(array[i] \div 16) + 1], HexDigits[(array[i] % 16) + 1]>>])

\* a value that parseInt yields for no two characters
NaN == 16 * 16 * 16

\* parseInt(c1 + c2, 16): leading white space is skipped, a sign is read, then the
\* longest prefix of hexadecimal digits; NaN when there is no digit ("0x" is a bare
\* radix prefix, so NaN)
parseInt16(c1, c2) ==
    IF HexVal(c1) >= 0
    THEN IF HexVal(c2) >= 0 THEN 16 * HexVal(c1) + HexVal(c2)
         ELSE IF c1 = "0" /\ c2 \in {"x", "X"} THEN NaN ELSE HexVal(c1)
    ELSE IF c1 \in {" ", "+"} THEN (IF HexVal(c2) >= 0 THEN HexVal(c2) ELSE NaN)
    ELSE IF c1 = "-" THEN (IF HexVal(c2) >= 0 THEN 0 - HexVal(c2) ELSE NaN)
    ELSE NaN

\* hexDecoder: [ok, value]; a value stored in a Uint8Array is taken modulo 256
hexDecoder(hex) ==
    IF hex = <<>> \/ Len(hex) % 2 # 0 THEN [ok |-> FALSE, value |-> <<>>]
    ELSE LET item(k) == parseInt16(hex[2 * k - 1], hex[2 * k])
             n == Len(hex) \div 2
         IN IF \E k \in 1..n : item(k) = NaN
            THEN [ok |-> FALSE, value |-> <<>>]
            ELSE [ok |-> TRUE, value |-> [k \in 1..n |-> item(k) % 256]]

\* expected == actual on the arrays themselves: two arrays are never the same object
arrayEqualsByIdentity(expected, actual) == FALSE

\* a comparison of the lengths alone
arrayEqualsLengthOnly(expected, actual) == Len(expected) = Len(actual)

arrayEquals(expected, actual) ==
    IF Len(expected) # Len(actual) THEN FALSE
    ELSE \A i \in DOMAIN actual : actual[i] = expected[i]

\* the elements of s without repetition, first occurrences in order (new Set(s))
RECURSIVE SetOrder(_)
SetOrder(s) ==
    IF s = <<>> THEN <<>>
    ELSE LET f == SetOrder(Front(s))
         IN IF \E i \in DOMAIN f : f[i] = Last(s) THEN f ELSE Append(f, Last(s))

Elems(s) == {s[i] : i \in DOMAIN s}

\* arrayDiff without rightSet.delete(l): onlyRight is all of right
arrayDiffKeepingRight(left, right) ==
    LET leftSet == SetOrder(left)
        rightSet == SetOrder(right)
        inRight(x) == x \in Elems(rightSet)
        notInRight(x) == x \notin Elems(rightSet)
    IN [onlyLeft |-> SelectSeq(leftSet, notInRight),
        both |-> SelectSeq(leftSet, inRight),
        onlyRight |-> rightSet]

arrayDiff(left, right) ==
    LET leftSet == SetOrder(left)
        rightSet == SetOrder(right)
        inRight(x) == x \in Elems(rightSet)
        notInRight(x) == x \notin Elems(rightSet)
        notInLeft(x) == x \notin Elems(leftSet)
    IN [onlyLeft |-> SelectSeq(leftSet, notInRight),
        both |-> SelectSeq(leftSet, inRight),
        onlyRight |-> SelectSeq(rightSet, notInLeft)]

Undefined == [type |-> "undefined"]

\* the array as it is, absent elements kept
coalesceNothing(array) == array

\* array.filter(t => t): an undefined element is dropped
coalesce(array) ==
    LET truthy(t) == t # Undefined
    IN SelectSeq(array, truthy)

----------------------------------------------------------------------------
(* Paths *)

endsWithSlash(path) == path # <<>> /\ Last(path) = "/"

\* a name as the tokens it contributes to a path: the empty name contributes none
Tok(name) == IF name = "" THEN <<>> ELSE <<name>>

\* node:path/posix parse(path): [dir, base]
parse(path) ==
    LET idx == {i \in DOMAIN path : path[i] # "/"}
    IN IF idx = {}
       THEN [dir |-> IF path = <<>> THEN <<>> ELSE <<"/">>, base |-> ""]
       ELSE LET i == CHOOSE k \in idx : \A m \in idx : m <= k
            IN [dir |-> IF i <= 1 THEN <<>>
                        ELSE IF i = 2 THEN <<"/">>
                        ELSE SubSeq(path, 1, i - 2),
                base |-> path[i]]

\* the names a request path addresses on the server: empty segments are dropped
Resolve(path) ==
    LET isName(t) == t # "/"
    IN SelectSeq(path, isName)

\* `${parent}/${name}` for the names of a directory: "a/b/", and "/" for the root
RECURSIVE Slashed(_)
Slashed(names) ==
    IF names = <<>> THEN <<>> ELSE <<Head(names), "/">> \o Slashed(Tail(names))

----------------------------------------------------------------------------
(* storage.ts: entries *)

\* an absent checksum (null or undefined)
Null == <<-1>>

Entry(type, parentPath, name, checksum) ==
    [type |-> type, parentPath |-> parentPath, name |-> name, checksum |-> checksum]

\* the constructor's first check alone
EntryInvariantChecksumOnly(e) == (e.type = "dir") = (e.checksum = Null)

\* AbstractBunnyEntry's constructor throws unless this holds
EntryInvariant(e) ==
    /\ (e.type = "dir") = (e.checksum = Null)
    /\ endsWithSlash(e.parentPath)

\* get path()
EntryPath(e) == e.parentPath \o Tok(e.name)

isBunnyFile(e) == e.type = "file"

\* BunnyStorage.cd(path)
cd(path) ==
    LET parsed == parse(path)
        dir == IF endsWithSlash(parsed.dir) THEN parsed.dir ELSE parsed.dir \o <<"/">>
    IN Entry("dir", dir, parsed.base, Null)

----------------------------------------------------------------------------
(* The server, as the storage client sees it *)

\* the wire record of the object at `names` (bunnyEntryDecoder's input): the Path
\* field is "/<zone>/" followed by the parent directories, each with a trailing "/"
WireRecord(names, node) ==
    [Path |-> <<"/", "zone", "/">> \o Slashed(Front(names)),
     ObjectName |-> Last(names),
     IsDirectory |-> node.kind = "dir",
     Checksum |-> IF node.kind = "file"
                  THEN toUpperCase(arrayToHex(SHA256(node.data)))
                  ELSE Null]

\* the server's answer to DESCRIBE: [status, json]
ServerDescribe(store, path) ==
    LET names == Resolve(path)
        node == Lookup(store, names)
    IN IF names = <<>> \/ node.kind = "none"
       THEN [status |-> 404, json |-> Null]
       ELSE [status |-> 200, json |-> WireRecord(names, node)]

\* the server's answer to PUT with a Checksum header: [status, store]; the server
\* refuses a body whose digest is not the header's, a path that is a directory and a
\* path below a file
ServerPut(store, path, body, header) ==
    LET names == Resolve(path)
        blocked == \/ names = <<>>
                   \/ Lookup(store, names).kind = "dir"
                   \/ \E i \in 1..(Len(names) - 1) :
                          Lookup(store, SubSeq(names, 1, i)).kind = "file"
    IN IF blocked \/ toUpperCase(header) # toUpperCase(arrayToHex(SHA256(body)))
       THEN [status |-> 400, store |-> store]
       ELSE [status |-> 201, store |-> Store(store, names, File(body))]

\* the server's listing of the directory at `names`, in its order
ServerList(store, names, order) ==
    LET node == Lookup(store, names)
        present(n) == n \in DOMAIN node.kids
    IN [i \in DOMAIN SelectSeq(order, present) |->
           WireRecord(Append(names, SelectSeq(order, present)[i]),
                      node.kids[SelectSeq(order, present)[i]])]

----------------------------------------------------------------------------
(* storage.ts: decoding and the storage client *)

\* bunnyEntryDecoder followed by parseEntry: [ok, entry]
parseEntry(json) ==
    LET afterZone == SubSeq(json.Path, 4, Len(json.Path))
        cleanPath == IF afterZone = <<>> THEN <<"/">> ELSE afterZone
        sum == IF json.Checksum = Null THEN [ok |-> TRUE, value |-> Null]
               ELSE hexDecoder(json.Checksum)
        e == Entry(IF json.IsDirectory THEN "dir" ELSE "file", cleanPath,
                   json.ObjectName, sum.value)
    IN IF SubSeq(json.Path, 1, 3) = <<"/", "zone", "/">> /\ sum.ok /\ EntryInvariant(e)
       THEN [ok |-> TRUE, entry |-> e]
       ELSE [ok |-> FALSE, entry |-> Undefined]

\* maybeDescribe once the response to DESCRIBE is there: [error, entry]
maybeDescribeResponse(response) ==
    IF response.status \in 200..299
    THEN LET parsed == parseEntry(response.json)
         IN IF parsed.ok THEN [error |-> "", entry |-> parsed.entry]
            ELSE [error |-> "Decode", entry |-> Undefined]
    ELSE IF response.status = 404 THEN [error |-> "", entry |-> Undefined]
    ELSE [error |-> "UnknownResponse", entry |-> Undefined]

\* BunnyStorage.maybeDescribe(path): [error, entry]; error "" when it returns
maybeDescribe(store, path) ==
    IF endsWithSlash(path) THEN [error |-> "FileExpected", entry |-> Undefined]
    ELSE maybeDescribeResponse(ServerDescribe(store, path))

\* whatever maybeDescribe returned
describeAnything(r) == r

\* describe's check of what maybeDescribe returned
describeFound(r) ==
    IF r.error = "" /\ r.entry = Undefined
    THEN [error |-> "NotFound", entry |-> Undefined]
    ELSE r

\* BunnyStorage.describe(path)
describe(store, path) == describeFound(maybeDescribe(store, path))

----------------------------------------------------------------------------
(* storage-algorithms.ts: the sync engine *)

\* one call in the log: a filesystem call (stat, readdir, readFile, on a local path),
\* a storage call (cd, maybeDescribe, upload, on a remote path) or a progress callback
Event(op, path, entry, changed) ==
    [op |-> op, path |-> path, entry |-> entry, changed |-> changed]

Call(op, path) == Event(op, path, Undefined, FALSE)

\* the arguments and locals of a call of uploadPath and of the uploadFile it makes
Activation(localPath, remotePath, recursive) ==
    [localPath |-> localPath, remotePath |-> remotePath, recursive |-> recursive,
     maybeEntry |-> Undefined, localFile |-> 0, checksum |-> Null]

Idle == Activation(<<>>, <<>>, FALSE)

Running == [status |-> "running", error |-> "", path |-> <<>>, result |-> <<>>]
Returned(result) == [status |-> "ok", error |-> "", path |-> <<>>, result |-> result]
Thrown(error, path) == [status |-> "failed", error |-> error, path |-> path, result |-> <<>>]

\* fs.readdir(localPath): the names of the directory, in the filesystem's order
readdir(tree, localPath, order) ==
    LET node == Lookup(tree, localPath)
        present(n) == n \in DOMAIN node.kids
    IN SelectSeq(order, present)

\* a loop that returns to its caller after the first child
RECURSIVE uploadDirectoryLoopOnce(_, _)
uploadDirectoryLoopOnce(stk, subResult) ==
    IF stk = <<>>
    THEN [stack |-> <<>>, returned |-> TRUE, result |-> subResult, next |-> Idle]
    ELSE LET top == Last(stk)
             result == top.result \o subResult
         IN IF top.names = <<>> \/ subResult # <<>>
            THEN uploadDirectoryLoopOnce(Front(stk), result)
            ELSE [stack |-> Append(Front(stk),
                               [top EXCEPT !.names = Tail(@), !.result = result]),
                  returned |-> FALSE,
                  result |-> <<>>,
                  next |-> Activation(Append(top.localPath, Head(top.names)),
                                      EntryPath(top.remoteEntry) \o <<"/", Head(top.names)>>,
                                      TRUE)]

\* a loop that takes the names from the end of the listing
RECURSIVE uploadDirectoryLoopLastFirst(_, _)
uploadDirectoryLoopLastFirst(stk, subResult) ==
    IF stk = <<>>
    THEN [stack |-> <<>>, returned |-> TRUE, result |-> subResult, next |-> Idle]
    ELSE LET top == Last(stk)
             result == top.result \o subResult
         IN IF top.names = <<>>
            THEN uploadDirectoryLoopLastFirst(Front(stk), result)
            ELSE [stack |-> Append(Front(stk),
                               [top EXCEPT !.names = Front(@), !.result = result]),
                  returned |-> FALSE,
                  result |-> <<>>,
                  next |-> Activation(Append(top.localPath, Last(top.names)),
                                      EntryPath(top.remoteEntry) \o <<"/", Last(top.names)>>,
                                      TRUE)]

\* uploadDirectory's loop after a child returned subResult: the result is pushed, and
\* the loop goes on to the next name or returns to the caller's loop
RECURSIVE uploadDirectoryLoop(_, _)
uploadDirectoryLoop(stk, subResult) ==
    IF stk = <<>>
    THEN [stack |-> <<>>, returned |-> TRUE, result |-> subResult, next |-> Idle]
    ELSE LET top == Last(stk)
             result == top.result \o subResult
         IN IF top.names = <<>>
            THEN uploadDirectoryLoop(Front(stk), result)
            ELSE [stack |-> Append(Front(stk),
                               [top EXCEPT !.names = Tail(@), !.result = result]),
                  returned |-> FALSE,
                  result |-> <<>>,
                  next |-> Activation(Append(top.localPath, Head(top.names)),
                                      EntryPath(top.remoteEntry) \o <<"/", Head(top.names)>>,
                                      TRUE)]

\* the call in progress returns subResult to its caller
Return(subResult) ==
    LET r == uploadDirectoryLoop(stack, subResult)
    IN /\ stack' = r.stack
       /\ cur' = r.next
       /\ pc' = IF r.returned THEN "done" ELSE "stat"
       /\ outcome' = IF r.returned THEN Returned(r.result) ELSE outcome

\* an error that is swallowed: the caller's loop carries on with the next name
ThrowAndCarryOn(error, path) == Return(<<>>)

\* the call in progress throws: every caller up to the top rethrows
Throw(error, path) ==
    /\ stack' = <<>>
    /\ cur' = Idle
    /\ pc' = "done"
    /\ outcome' = Thrown(error, path)

\* a dispatch that expands a directory whatever the recursive option
uploadPathDispatchExpanding(kind, recursive) ==
    IF kind = "file" THEN "uploadFile"
    ELSE IF kind = "dir" THEN "uploadDirectory"
    ELSE IF kind = "other" THEN "UnknownKind"
    ELSE "ENOENT"

\* uploadPath's dispatch on what fs.stat found and on the recursive option
uploadPathDispatch(kind, recursive) ==
    IF kind = "file" THEN "uploadFile"
    ELSE IF kind = "dir"
         THEN IF ~recursive THEN "InvalidArgument" ELSE "uploadDirectory"
    ELSE IF kind = "other" THEN "UnknownKind"
    ELSE "ENOENT"

\* uploadPath: fs.stat and the dispatch on the kind of the local path
UploadPathStat ==
    /\ pc = "stat"
    /\ LET to == uploadPathDispatch(Lookup(local, cur.localPath).kind, cur.recursive)
       IN /\ log' = Append(log, Call("stat", cur.localPath))
             \o (IF to = "uploadDirectory" THEN <<Call("cd", cur.remotePath)>> ELSE <<>>)
          /\ IF to = "uploadFile"
             THEN /\ pc' = "maybeDescribe"
                  /\ UNCHANGED <<stack, cur, outcome>>
             ELSE IF to = "uploadDirectory"
             THEN /\ pc' = "readdir"
                  /\ UNCHANGED <<stack, cur, outcome>>
             ELSE Throw(to, cur.localPath)
    /\ UNCHANGED <<local, remote, lorder, rorder, options, remoteArg, run, prev,
                   interfered, tasks, settled, darg>>

\* uploadDirectory: fs.readdir, then the loop over the names
UploadDirectoryReaddir ==
    /\ pc = "readdir"
    /\ log' = Append(log, Call("readdir", cur.localPath))
    /\ IF Lookup(local, cur.localPath).kind # "dir"
       THEN Throw("ENOTDIR", cur.localPath)
       ELSE LET frame == [localPath |-> cur.localPath,
                          remoteEntry |-> cd(cur.remotePath),
                          names |-> readdir(local, cur.localPath, lorder),
                          result |-> <<>>]
                r == uploadDirectoryLoop(Append(stack, frame), <<>>)
            IN /\ stack' = r.stack
               /\ cur' = r.next
               /\ pc' = IF r.returned THEN "done" ELSE "stat"
               /\ outcome' = IF r.returned THEN Returned(r.result) ELSE outcome
    /\ UNCHANGED <<local, remote, lorder, rorder, options, remoteArg, run, prev,
                   interfered, tasks, settled, darg>>

\* uploadFile: storage.maybeDescribe(remotePath)
UploadFileProbe ==
    /\ pc = "maybeDescribe"
    /\ log' = Append(log, Call("maybeDescribe", cur.remotePath))
    /\ LET r == maybeDescribe(remote, cur.remotePath)
       IN IF r.error # ""
          THEN Throw(r.error, cur.remotePath)
          ELSE /\ cur' = [cur EXCEPT !.maybeEntry = r.entry]
               /\ pc' = "readFile"
               /\ UNCHANGED <<stack, outcome>>
    /\ UNCHANGED <<local, remote, lorder, rorder, options, remoteArg, run, prev,
                   interfered, tasks, settled, darg>>

\* a decision that never compares the checksums: an existing file is always rewritten
uploadFileDecideUncompared(maybeEntry, localFile, overwrite) ==
    IF maybeEntry = Undefined THEN "upload"
    ELSE IF ~overwrite THEN "OverwriteRequired"
    ELSE "upload"

\* a decision that uploads over a differing remote file whatever the overwrite option
uploadFileDecideUngated(maybeEntry, localFile, overwrite) ==
    IF maybeEntry = Undefined THEN "upload"
    ELSE IF maybeEntry.checksum = Null THEN "TypeError"
    ELSE IF arrayEquals(computeChecksum(localFile), maybeEntry.checksum) THEN "unchanged"
    ELSE "upload"

\* uploadFile's decision once the remote entry and the local bytes are known
uploadFileDecide(maybeEntry, localFile, overwrite) ==
    IF maybeEntry = Undefined THEN "upload"
    ELSE IF maybeEntry.checksum = Null THEN "TypeError"
    ELSE IF arrayEquals(computeChecksum(localFile), maybeEntry.checksum) THEN "unchanged"
    ELSE IF ~overwrite THEN "OverwriteRequired"
    ELSE "upload"

\* uploadFile: fs.readFile(localPath), then the comparison with the remote entry
UploadFileRead ==
    /\ pc = "readFile"
    /\ LET node == Lookup(local, cur.localPath)
           read == Call("readFile", cur.localPath)
           decision == uploadFileDecide(cur.maybeEntry, node.data, options.overwrite)
       IN IF node.kind # "file"
          THEN /\ log' = Append(log, read)
               /\ Throw("EISDIR", cur.localPath)
          ELSE IF decision = "unchanged"
          THEN \* file identical, carry on
               /\ log' = log \o <<read, Event("progress", cur.remotePath, cur.maybeEntry, FALSE)>>
               /\ Return(<<Undefined>>)
          ELSE IF decision = "upload"
          THEN /\ log' = Append(log, read)
               /\ cur' = [cur EXCEPT !.localFile = node.data,
                                     !.checksum = IF cur.maybeEntry = Undefined THEN Null
                                                  ELSE computeChecksum(node.data)]
               /\ pc' = "PUT"
               /\ UNCHANGED <<stack, outcome>>
          ELSE /\ log' = Append(log, read)
               /\ Throw(decision, cur.remotePath)
    /\ UNCHANGED <<local, remote, lorder, rorder, options, remoteArg, run, prev,
                   interfered, tasks, settled, darg>>

\* storage.upload: the PUT request with the Checksum header
UploadPut ==
    /\ pc = "PUT"
    /\ log' = Append(log, Event("upload", cur.remotePath, Undefined, FALSE))
    /\ IF endsWithSlash(cur.remotePath)
       THEN /\ Throw("UploadDirectory", cur.remotePath)
            /\ UNCHANGED remote
       ELSE LET checksum == IF cur.checksum = Null THEN computeChecksum(cur.localFile)
                            ELSE cur.checksum
                response == ServerPut(remote, cur.remotePath, cur.localFile,
                                      toUpperCase(arrayToHex(checksum)))
            IN IF response.status >= 300
               THEN /\ Throw("Transport", cur.remotePath)
                    /\ UNCHANGED remote
               ELSE /\ remote' = response.store
                    /\ cur' = [cur EXCEPT !.checksum = checksum]
                    /\ pc' = "DESCRIBE"
                    /\ UNCHANGED <<stack, outcome>>
    /\ UNCHANGED <<local, lorder, rorder, options, remoteArg, run, prev,
                   interfered, tasks, settled, darg>>

\* storage.upload: describe(path) after the PUT and the comparison of the checksums;
\* then uploadFile's progress callback and return
UploadDescribe ==
    /\ pc = "DESCRIBE"
    /\ LET r == describe(remote, cur.remotePath)
       IN IF r.error # ""
          THEN /\ log' = log
               /\ Throw(r.error, cur.remotePath)
          ELSE IF r.entry.checksum = Null
          THEN /\ log' = log
               /\ Throw("TypeError", cur.remotePath)
          ELSE IF ~arrayEquals(cur.checksum, r.entry.checksum)
          THEN /\ log' = log
               /\ Throw("ChecksumMismatch", cur.remotePath)
          ELSE /\ log' = Append(log, Event("progress", cur.remotePath, r.entry, TRUE))
               /\ Return(<<r.entry>>)
    /\ UNCHANGED <<local, remote, lorder, rorder, options, remoteArg, run, prev,
                   interfered, tasks, settled, darg>>

\* the caller calls uploadPath again with the same arguments
UploadAgain ==
    /\ pc = "done"
    /\ run < MaxRuns
    /\ run' = run + 1
    /\ prev' = outcome
    /\ outcome' = Running
    /\ log' = <<>>
    /\ stack' = <<>>
    /\ cur' = Activation(<<>>, remoteArg, options.recursive)
    /\ pc' = "stat"
    /\ UNCHANGED <<local, remote, lorder, rorder, options, remoteArg,
                   interfered, tasks, settled, darg>>

----------------------------------------------------------------------------
(* Other parties *)

\* the remote paths uploadPath writes for the local tree
Destinations == {Resolve(remoteArg) \o p : p \in FilePaths(local)}

\* another client of the storage zone uploads to or deletes one of these paths
RemoteChange ==
    /\ ~interfered
    /\ ~(pc = "done" /\ run = MaxRuns)
    /\ \E names \in Destinations \ {<<>>} :
          \/ \E c \in Contents :
                remote' = ServerPut(remote, Slashed(names), c,
                                    arrayToHex(SHA256(c))).store
          \/ remote' = Remove(remote, names)
    /\ remote' # remote
    /\ interfered' = TRUE
    /\ UNCHANGED <<local, lorder, rorder, options, remoteArg, run, pc, stack, cur,
                   log, outcome, prev, tasks, settled, darg>>

\* another process rewrites a regular file of the local tree
LocalChange ==
    /\ ~interfered
    /\ ~(pc = "done" /\ run = MaxRuns)
    /\ \E p \in FilePaths(local) : \E c \in Contents :
          /\ Lookup(local, p) # File(c)
          /\ local' = Store(local, p, File(c))
    /\ interfered' = TRUE
    /\ UNCHANGED <<remote, lorder, rorder, options, remoteArg, run, pc, stack, cur,
                   log, outcome, prev, tasks, settled, darg>>

----------------------------------------------------------------------------
(* The sync engine's specification *)

\* the local path is a regular file, a special file, or a directory of regular files,
\* special files and subdirectories
LocalLeaves == {File(c) : c \in Contents} \cup {Other}
LocalSubDirs == Dirs(SubNames, {File(1)})
LocalTrees == LocalLeaves \cup Dirs(Names, LocalLeaves \cup LocalSubDirs)

\* the storage zone holds files and non-empty directories of files
RemoteSubDirs == Dirs(SubNames, {File(c) : c \in Contents}) \ {Dir(EmptyKids)}
RemoteTrees == Dirs(Names, {File(c) : c \in Contents} \cup RemoteSubDirs)

\* uploadPath's remotePath: the root of the zone, or "/a"; a directory is uploaded to
\* the root
RemoteArgs(tree) == IF tree.kind = "dir" THEN {<<"/">>} ELSE {<<"/">>, <<"/", "a">>}

NoTasks == <<>>

UploadInit ==
    /\ local \in LocalTrees
    /\ remote \in RemoteTrees
    /\ lorder \in Perms(Names)
    /\ rorder = <<>>
    /\ options \in [recursive : BOOLEAN, overwrite : BOOLEAN]
    /\ remoteArg \in RemoteArgs(local)
    /\ run = 1
    /\ pc = "stat"
    /\ stack = <<>>
    /\ cur = Activation(<<>>, remoteArg, options.recursive)
    /\ log = <<>>
    /\ outcome = Running
    /\ prev = Running
    /\ interfered = FALSE
    /\ tasks = NoTasks
    /\ settled = <<>>
    /\ darg = [recursive |-> FALSE, remotePath |-> <<>>]

UploadNext ==
    \/ UploadPathStat
    \/ UploadDirectoryReaddir
    \/ UploadFileProbe
    \/ UploadFileRead
    \/ UploadPut
    \/ UploadDescribe
    \/ UploadAgain
    \/ RemoteChange
    \/ LocalChange

UploadSpec == UploadInit /\ [][UploadNext]_vars

----------------------------------------------------------------------------
(* storage.ts: listing *)

\* BunnyStorage.list(path): [error, entries]
list(store, path, order) ==
    LET names == Resolve(path)
        node == Lookup(store, names)
    IN IF node.kind = "none" THEN [error |-> "Transport", entries |-> <<>>]
       ELSE IF node.kind = "file" THEN [error |-> "ExpectedDirectory", entries |-> <<>>]
       ELSE LET json == ServerList(store, names, order)
                parsed == [i \in DOMAIN json |-> parseEntry(json[i])]
            IN IF \E i \in DOMAIN parsed : ~parsed[i].ok
               THEN [error |-> "Decode", entries |-> <<>>]
               ELSE [error |-> "", entries |-> [i \in DOMAIN parsed |-> parsed[i].entry]]

\* loadPath(storage, path): [error, entry]
loadPath(store, path) ==
    IF endsWithSlash(path) THEN [error |-> "", entry |-> cd(path)]
    ELSE describe(store, path)

----------------------------------------------------------------------------
(* storage-algorithms.ts: the diff engine *)

\* an absent localPath or remotePath of a Difference
NoPath == <<"undefined">>

Difference(localPath, remotePath, type) ==
    [localPath |-> localPath, remotePath |-> remotePath, type |-> type]

Tree(value, children) == [value |-> value, children |-> children]

\* !stat.isFile and !stat.isDirectory: the property read is the method itself, a
\* function, which is truthy whatever the path is
notIsFile(node) == FALSE
notIsDirectory(node) == FALSE

\* diffFiles after the local bytes are read: the comparison of the checksums
diffFilesCompare(localPath, remoteFile, localFile) ==
    IF ~arrayEquals(remoteFile.checksum, SHA256(localFile))
    THEN Tree(Difference(localPath, EntryPath(remoteFile), "contents"), <<>>)
    ELSE Undefined

\* diffDirectories' result from the set difference and the children's results that
\* are not absent
diffDirectoriesResult(localPath, remoteDirectory, onlyLocal, onlyRemote, children) ==
    IF Len(onlyLocal) > 0 \/ Len(onlyRemote) > 0 \/ Len(children) > 0
    THEN Tree(Difference(localPath, EntryPath(remoteDirectory), "none"),
              [i \in DOMAIN onlyLocal |->
                  Tree(Difference(<<onlyLocal[i]>>, NoPath, "onlyLocal"), <<>>)]
              \o [i \in DOMAIN onlyRemote |->
                  Tree(Difference(NoPath, <<onlyRemote[i]>>, "onlyRemote"), <<>>)]
              \o children)
    ELSE Undefined

\* a call of diffPaths whose recursive argument is dropped
TaskNotRecursive(at, remoteEntry, recursive) ==
    [pc |-> at, remote |-> remoteEntry, recursive |-> FALSE, calls |-> <<>>,
     entries |-> <<>>, onlyLocal |-> <<>>, onlyRemote |-> <<>>, both |-> <<>>,
     result |-> Undefined, error |-> ""]

\* a call of diffPaths(localPath, remote, recursive) and the locals of the diffFiles or
\* diffDirectories call it makes; calls are the filesystem and storage calls it made
Task(at, remoteEntry, recursive) ==
    [pc |-> at, remote |-> remoteEntry, recursive |-> recursive, calls |-> <<>>,
     entries |-> <<>>, onlyLocal |-> <<>>, onlyRemote |-> <<>>, both |-> <<>>,
     result |-> Undefined, error |-> ""]

Settled(t) == tasks[t].pc \in {"done", "failed"}

\* the call at t returns result
Resolved(t, op, result) ==
    [tasks[t] EXCEPT !.pc = "done", !.result = result, !.calls = Append(@, op)]

\* the call at t throws error
Rejected(t, op, error) ==
    [tasks[t] EXCEPT !.pc = "failed", !.error = error, !.calls = Append(@, op)]

\* the children's results in the order in which the children settled
promiseAllByCompletion(t, both) ==
    LET isChild(p) == Len(p) = Len(t) + 1 /\ SubSeq(p, 1, Len(t)) = t
        done == SelectSeq(settled, isChild)
    IN [i \in DOMAIN done |-> tasks[done[i]].result]

\* the results Promise.all delivers for the children of t: one per name of both, in
\* the order of both
promiseAll(t, both) == [i \in DOMAIN both |-> tasks[Append(t, both[i])].result]

\* the cli's diff handler: loadPath, then diffPaths on the entry
DiffLoadPath ==
    /\ <<>> \in DOMAIN tasks
    /\ tasks[<<>>].pc = "loadPath"
    /\ LET r == loadPath(remote, darg.remotePath)
       IN IF r.error # ""
          THEN /\ tasks' = [tasks EXCEPT ![<<>>] = Rejected(<<>>, "loadPath", r.error)]
               /\ settled' = Append(settled, <<>>)
          ELSE /\ tasks' = [tasks EXCEPT ![<<>>] =
                               [@ EXCEPT !.pc = "stat", !.remote = r.entry,
                                         !.calls = Append(@, "loadPath")]]
               /\ settled' = settled
    /\ UNCHANGED <<local, remote, lorder, rorder, darg, uploadVars, interfered>>

\* diffFiles and diffDirectories: fs.stat(localPath) and the check of the kind
DiffStat(t) ==
    /\ tasks[t].pc = "stat"
    /\ LET node == Lookup(local, t)
           task == tasks[t]
       IN IF node.kind = "none"
          THEN /\ tasks' = [tasks EXCEPT ![t] = Rejected(t, "stat", "ENOENT")]
               /\ settled' = Append(settled, t)
          ELSE IF isBunnyFile(task.remote)
          THEN IF notIsFile(node)
               THEN /\ tasks' = [tasks EXCEPT ![t] = Resolved(t, "stat",
                         Tree(Difference(t, EntryPath(task.remote), "type"), <<>>))]
                    /\ settled' = Append(settled, t)
               ELSE /\ tasks' = [tasks EXCEPT ![t] =
                                    [@ EXCEPT !.pc = "readFile", !.calls = Append(@, "stat")]]
                    /\ settled' = settled
          ELSE IF notIsDirectory(node)
               THEN /\ tasks' = [tasks EXCEPT ![t] = Resolved(t, "stat",
                         Tree(Difference(t, EntryPath(task.remote), "type"), <<>>))]
                    /\ settled' = Append(settled, t)
               ELSE /\ tasks' = [tasks EXCEPT ![t] =
                                    [@ EXCEPT !.pc = "list", !.calls = Append(@, "stat")]]
                    /\ settled' = settled
    /\ UNCHANGED <<local, remote, lorder, rorder, darg, uploadVars, interfered>>

\* diffFiles: fs.readFile(localPath), the digest and the comparison
DiffReadFile(t) ==
    /\ tasks[t].pc = "readFile"
    /\ LET node == Lookup(local, t)
       IN tasks' = [tasks EXCEPT ![t] =
             IF node.kind = "file"
             THEN Resolved(t, "readFile", diffFilesCompare(t, tasks[t].remote, node.data))
             ELSE IF node.kind = "dir" THEN Rejected(t, "readFile", "EISDIR")
             ELSE Rejected(t, "readFile", "EIO")]
    /\ settled' = Append(settled, t)
    /\ UNCHANGED <<local, remote, lorder, rorder, darg, uploadVars, interfered>>

\* diffDirectories: remoteDirectory.list()
DiffList(t) ==
    /\ tasks[t].pc = "list"
    /\ LET r == list(remote, EntryPath(tasks[t].remote), rorder)
       IN IF r.error # ""
          THEN /\ tasks' = [tasks EXCEPT ![t] = Rejected(t, "list", r.error)]
               /\ settled' = Append(settled, t)
          ELSE /\ tasks' = [tasks EXCEPT ![t] =
                               [@ EXCEPT !.pc = "readdir", !.entries = r.entries,
                                         !.calls = Append(@, "list")]]
               /\ settled' = settled
    /\ UNCHANGED <<local, remote, lorder, rorder, darg, uploadVars, interfered>>

\* diffDirectories: fs.readdir(localPath) and arrayDiff; with recursive, diffPaths is
\* called for every name of both and the call waits for all of them
DiffReaddir(t) ==
    /\ tasks[t].pc = "readdir"
    /\ LET task == tasks[t]
           node == Lookup(local, t)
           keys == [i \in DOMAIN task.entries |-> task.entries[i].name]
           dict(name) == task.entries[CHOOSE i \in DOMAIN task.entries :
                                         task.entries[i].name = name]
           d == arrayDiff(readdir(local, t, lorder), keys)
       IN IF node.kind # "dir"
          THEN /\ tasks' = [tasks EXCEPT ![t] = Rejected(t, "readdir", "ENOTDIR")]
               /\ settled' = Append(settled, t)
          ELSE IF task.recursive /\ d.both # <<>>
          THEN /\ tasks' = [p \in DOMAIN tasks \cup {Append(t, d.both[i]) : i \in DOMAIN d.both} |->
                              IF p = t
                              THEN [task EXCEPT !.pc = "join", !.onlyLocal = d.onlyLeft,
                                                !.onlyRemote = d.onlyRight, !.both = d.both,
                                                !.calls = Append(@, "readdir")]
                              ELSE IF p \in DOMAIN tasks THEN tasks[p]
                              ELSE Task("stat", dict(Last(p)), TRUE)]
               /\ settled' = settled
          ELSE /\ tasks' = [tasks EXCEPT ![t] = Resolved(t, "readdir",
                               diffDirectoriesResult(t, task.remote, d.onlyLeft,
                                                     d.onlyRight, <<>>))]
               /\ settled' = Append(settled, t)
    /\ UNCHANGED <<local, remote, lorder, rorder, darg, uploadVars, interfered>>

\* diffDirectories: Promise.all has resolved, every child call having returned
DiffJoin(t) ==
    /\ tasks[t].pc = "join"
    /\ \A i \in DOMAIN tasks[t].both : tasks[Append(t, tasks[t].both[i])].pc = "done"
    /\ LET task == tasks[t]
       IN tasks' = [tasks EXCEPT ![t] = Resolved(t, "join",
             diffDirectoriesResult(t, task.remote, task.onlyLocal, task.onlyRemote,
                                   coalesce(promiseAll(t, task.both))))]
    /\ settled' = Append(settled, t)
    /\ UNCHANGED <<local, remote, lorder, rorder, darg, uploadVars, interfered>>

\* diffDirectories: Promise.all has rejected, a child call having thrown
DiffJoinRejected(t) ==
    /\ tasks[t].pc = "join"
    /\ \E i \in DOMAIN tasks[t].both :
          LET child == tasks[Append(t, tasks[t].both[i])]
          IN /\ child.pc = "failed"
             /\ tasks' = [tasks EXCEPT ![t] = Rejected(t, "join", child.error)]
    /\ settled' = Append(settled, t)
    /\ UNCHANGED <<local, remote, lorder, rorder, darg, uploadVars, interfered>>

----------------------------------------------------------------------------
(* The diff engine's specification *)

\* the local path is a regular file or a directory of regular files and subdirectories
DiffLocalSubDirs == Dirs(SubNames, {File(c) : c \in Contents})
DiffLocalTrees ==
    {File(c) : c \in Contents}
        \cup Dirs(Names, {File(c) : c \in Contents} \cup DiffLocalSubDirs)

\* the storage zone holds files and directories of files
DiffRemoteTrees ==
    Dirs(Names, {File(c) : c \in Contents} \cup Dirs(SubNames, {File(c) : c \in Contents}))

\* the diff command's REMOTE-PATH
DiffArgs == {<<"/">>, <<"/", "a">>}

DiffInit ==
    /\ local \in DiffLocalTrees
    /\ remote \in DiffRemoteTrees
    /\ lorder \in Perms(Names)
    /\ rorder \in Perms(Names)
    /\ darg \in [recursive : BOOLEAN, remotePath : DiffArgs]
    /\ tasks = [t \in {<<>>} |-> Task("loadPath", Undefined, darg.recursive)]
    /\ settled = <<>>
    /\ options = [recursive |-> FALSE, overwrite |-> FALSE]
    /\ remoteArg = <<>>
    /\ run = 1
    /\ pc = "idle"
    /\ stack = <<>>
    /\ cur = Idle
    /\ log = <<>>
    /\ outcome = Running
    /\ prev = Running
    /\ interfered = FALSE

DiffNext ==
    \/ DiffLoadPath
    \/ \E t \in DOMAIN tasks : DiffStat(t)
    \/ \E t \in DOMAIN tasks : DiffReadFile(t)
    \/ \E t \in DOMAIN tasks : DiffList(t)
    \/ \E t \in DOMAIN tasks : DiffReaddir(t)
    \/ \E t \in DOMAIN tasks : DiffJoin(t)
    \/ \E t \in DOMAIN tasks : DiffJoinRejected(t)

DiffSpec == DiffInit /\ [][DiffNext]_vars

----------------------------------------------------------------------------
(* Properties of the sync engine *)

\* the positions of the calls `op` in the log of this run
Calls(op) == {i \in DOMAIN log : log[i].op = op}

\* the remote names the upload of local file p goes to
Destination(p) == Resolve(remoteArg) \o p

RunSucceeded == pc = "done" /\ outcome.status = "ok"

\* C1: Sync idempotence.  When a call of uploadPath has completed successfully and
\* nobody else has changed the local tree or the remote store, the next call with the
\* same arguments makes no storage.upload call, reports changed = false in every
\* progress callback, and completes with one progress callback for every regular file
\* of the local tree.
C1_SyncIdempotence ==
    (run > 1 /\ prev.status = "ok" /\ ~interfered) =>
        /\ Calls("upload") = {}
        /\ \A i \in Calls("progress") : ~log[i].changed
        /\ pc = "done" =>
              /\ outcome.status = "ok"
              /\ {Resolve(log[i].path) : i \in Calls("progress")} = Destinations
              /\ Cardinality(Calls("progress")) = Cardinality(FilePaths(local))

\* a second run has completed after a first one that uploaded a file, over a tree of
\* at least two regular files
C1_Witness ==
    /\ run = 2 /\ pc = "done" /\ prev.status = "ok" /\ ~interfered
    /\ \E i \in DOMAIN prev.result : prev.result[i] # Undefined
    /\ Cardinality(FilePaths(local)) >= 2
    /\ Calls("progress") # {}

\* uploadFile has the remote entry and is about to read the local file, the entry is
\* a file whose checksum is not the local file's, and overwrite is off
OverwriteGateCase ==
    /\ pc = "readFile"
    /\ Lookup(local, cur.localPath).kind = "file"
    /\ cur.maybeEntry # Undefined
    /\ cur.maybeEntry.checksum # Null
    /\ cur.maybeEntry.checksum # SHA256(Lookup(local, cur.localPath).data)
    /\ ~options.overwrite

\* C2: Overwrite gate.  When uploadFile finds a remote entry at the destination whose
\* checksum differs from the local file's and overwrite is false, it throws the
\* Overwrite-Required error naming the remote path, makes no storage.upload call and
\* no progress callback for the file, and leaves the remote store as it is.
C2_OverwriteGate ==
    [][(OverwriteGateCase /\ pc' # pc) =>
          /\ pc' = "done"
          /\ outcome' = Thrown("OverwriteRequired", cur.remotePath)
          /\ remote' = remote
          /\ \A i \in DOMAIN log' :
                log'[i].path = cur.remotePath => log'[i].op \notin {"upload", "progress"}
          /\ \A i \in DOMAIN log' : i > Len(log) => log'[i].op = "readFile"]_vars

\* the gate stopped a run after an earlier file of the same run was processed
C2_Witness ==
    /\ pc = "done"
    /\ outcome.status = "failed" /\ outcome.error = "OverwriteRequired"
    /\ Calls("progress") # {}
    /\ Last(log).op = "readFile"

\* C3: storage.upload returns an entry only if the entry described after the PUT has
\* the SHA-256 checksum of the bytes that were sent, and uploadFile passes that entry
\* to the progress callback; when the described entry has another checksum, upload
\* throws the Checksum-Mismatch error and returns no entry.
C3_UploadVerifiesChecksum ==
    [][(pc = "DESCRIBE" /\ pc' # pc) =>
          LET d == describe(remote, cur.remotePath)
              sent == SHA256(cur.localFile)
          IN IF d.error = "" /\ d.entry.checksum = sent
             THEN /\ log' = Append(log, Event("progress", cur.remotePath, d.entry, TRUE))
                  /\ outcome'.status # "failed"
             ELSE /\ log' = log
                  /\ outcome'.status = "failed"
                  /\ outcome'.result = <<>>
                  /\ (d.error = "" /\ d.entry.checksum # Null)
                        => outcome'.error = "ChecksumMismatch"]_vars

\* an upload failed with the Checksum-Mismatch error
C3_Witness ==
    /\ pc = "done"
    /\ outcome.status = "failed" /\ outcome.error = "ChecksumMismatch"
    /\ Calls("upload") # {}

\* C4: the list a successful uploadPath returns holds exactly one FileEntry for every
\* regular file of the local tree, the unchanged files included, and no absent element.
C4_ResultListsEveryFile ==
    RunSucceeded =>
        /\ Len(outcome.result) = Cardinality(FilePaths(local))
        /\ \A i \in DOMAIN outcome.result :
              /\ outcome.result[i] # Undefined
              /\ isBunnyFile(outcome.result[i])
        /\ {Resolve(EntryPath(outcome.result[i])) : i \in DOMAIN outcome.result} = Destinations

\* C5: in a successful run of uploadPath the progress callback is made exactly once
\* for every regular file, with changed = true exactly for the files storage.upload
\* was called for in this run, so the callbacks with changed = true are as many as the
\* uploads.
C5_ProgressOncePerFile ==
    RunSucceeded =>
        /\ \A p \in FilePaths(local) :
              Cardinality({i \in Calls("progress") :
                              Resolve(log[i].path) = Destination(p)}) = 1
        /\ \A i \in Calls("progress") :
              /\ Resolve(log[i].path) \in Destinations
              /\ log[i].changed <=> \E j \in Calls("upload") : log[j].path = log[i].path
        /\ Cardinality({i \in Calls("progress") : log[i].changed})
              = Cardinality(Calls("upload"))

\* a successful run over at least two regular files, one uploaded and one unchanged
C5_Witness ==
    /\ RunSucceeded
    /\ Cardinality(FilePaths(local)) >= 2
    /\ \E i, j \in Calls("progress") : log[i].changed /\ ~log[j].changed

\* C6: uploadPath on a local directory without the recursive option throws the
\* Invalid-Argument error after the stat of the directory and before anything else:
\* no probe, no upload, no progress callback, no child visited.
C6_DirectoryNeedsRecursive ==
    (local.kind = "dir" /\ ~options.recursive) =>
        /\ pc \in {"stat", "done"}
        /\ stack = <<>>
        /\ \A i \in DOMAIN log : log[i] = Call("stat", <<>>)
        /\ pc = "done" => outcome = Thrown("InvalidArgument", <<>>)

\* uploadPath has thrown for a directory that has children
C6_Witness ==
    /\ local.kind = "dir" /\ DOMAIN local.kids # {}
    /\ ~options.recursive
    /\ pc = "done" /\ run = 1
    /\ outcome.error = "InvalidArgument"

----------------------------------------------------------------------------
(* Properties of the diff engine *)

\* the diffPaths calls on a file entry, and those on a directory entry
FileTasks ==
    {t \in DOMAIN tasks : tasks[t].remote # Undefined /\ isBunnyFile(tasks[t].remote)}
DirTasks ==
    {t \in DOMAIN tasks : tasks[t].remote # Undefined /\ ~isBunnyFile(tasks[t].remote)}

\* the filesystem and storage calls a diffFiles or diffDirectories call made itself
OwnCalls(t) ==
    LET own(op) == op \notin {"loadPath", "join"}
    IN SelectSeq(tasks[t].calls, own)

\* C7: Type mismatch in diff.  diffFiles on a local path that exists and is not a
\* regular file returns a single leaf Difference of kind type after the stat alone, and
\* diffDirectories on a local path that exists and is not a directory returns a single
\* leaf Difference of kind type after the stat alone (no listing, no readdir).
C7_TypeMismatchIsADifference ==
    /\ \A t \in FileTasks :
          (Settled(t) /\ Lookup(local, t).kind \notin {"none", "file"}) =>
              /\ tasks[t].pc = "done"
              /\ tasks[t].result =
                    Tree(Difference(t, EntryPath(tasks[t].remote), "type"), <<>>)
              /\ OwnCalls(t) = <<"stat">>
    /\ \A t \in DirTasks :
          (Settled(t) /\ Lookup(local, t).kind \notin {"none", "dir"}) =>
              /\ tasks[t].pc = "done"
              /\ tasks[t].result =
                    Tree(Difference(t, EntryPath(tasks[t].remote), "type"), <<>>)
              /\ OwnCalls(t) = <<"stat">>

\* C8: for a local regular file, diffFiles returns a leaf Difference of kind contents,
\* with the local path and the remote entry's path, exactly when the SHA-256 checksum
\* of the local bytes is not remoteFile.checksum, and returns absent when it is.
C8_ContentsDifference ==
    \A t \in FileTasks :
        (Settled(t) /\ Lookup(local, t).kind = "file") =>
            /\ tasks[t].pc = "done"
            /\ tasks[t].result =
                  IF SHA256(Lookup(local, t).data) # tasks[t].remote.checksum
                  THEN Tree(Difference(t, EntryPath(tasks[t].remote), "contents"), <<>>)
                  ELSE Undefined

\* one diffFiles call returned a contents Difference and another returned absent
C8_Witness ==
    \E t, u \in FileTasks :
        /\ tasks[t].pc = "done" /\ tasks[t].result # Undefined
        /\ tasks[t].result.value.type = "contents"
        /\ tasks[u].pc = "done" /\ tasks[u].result = Undefined

\* a Difference tree in which exactly the nodes of kind none have children
RECURSIVE WellFormed(_)
WellFormed(tree) ==
    /\ tree # Undefined
    /\ (tree.value.type = "none") = (tree.children # <<>>)
    /\ \A i \in DOMAIN tree.children : WellFormed(tree.children[i])

\* the names of the remote directory a diffDirectories call compares with
RemoteNames(t) == DOMAIN Lookup(remote, Resolve(EntryPath(tasks[t].remote))).kids

\* C9: diffDirectories on a local directory returns a container Difference (kind none)
\* exactly when a name is only local, a name is only remote, or a recursive child
\* comparison is not absent, and returns absent otherwise; in every tree diffPaths
\* returns, the nodes of kind none are exactly the nodes that have children.
C9_ContainerIffDifference ==
    /\ \A t \in DirTasks :
          (tasks[t].pc = "done" /\ Lookup(local, t).kind = "dir") =>
              LET L == DOMAIN Lookup(local, t).kids
                  R == RemoteNames(t)
                  differs == \/ L \ R # {}
                             \/ R \ L # {}
                             \/ /\ tasks[t].recursive
                                /\ \E n \in L \cap R : tasks[Append(t, n)].result # Undefined
              IN /\ (tasks[t].result # Undefined) = differs
                 /\ differs => /\ tasks[t].result.value =
                                     Difference(t, EntryPath(tasks[t].remote), "none")
                               /\ tasks[t].result.children # <<>>
    /\ \A t \in DOMAIN tasks :
          (tasks[t].pc = "done" /\ tasks[t].result # Undefined) => WellFormed(tasks[t].result)

\* a recursive diffDirectories call returned absent for directories with a common
\* subdirectory, and another call returned a container within a container
C9_Witness ==
    \/ /\ tasks[<<>>].pc = "done" /\ tasks[<<>>].result = Undefined
       /\ tasks[<<>>].recursive
       /\ \E n \in Names : <<n, "a">> \in DOMAIN tasks
    \/ /\ tasks[<<>>].pc = "done" /\ tasks[<<>>].result # Undefined
       /\ \E i \in DOMAIN tasks[<<>>].result.children :
             tasks[<<>>].result.children[i].children # <<>>
       /\ \E n \in Names : n \in DOMAIN local.kids /\ n \in DOMAIN remote.kids
                           /\ tasks[<<n>>].result = Undefined

\* the kinds of the children of a tree
ChildKinds(tree) == [i \in DOMAIN tree.children |-> tree.children[i].value.type]

\* C10: the children of a container Difference are the onlyLocal leaves, then the
\* onlyRemote leaves, then the recursive results that are not absent; the recursive
\* results are in the order of the names of both (the order of the local listing),
\* whatever the order in which the child comparisons settled.
C10_ChildrenOrder ==
    \A t \in DirTasks :
        (tasks[t].pc = "done" /\ tasks[t].result # Undefined) =>
            LET tree == tasks[t].result
                kinds == ChildKinds(tree)
                rank(k) == IF k = "onlyLocal" THEN 1 ELSE IF k = "onlyRemote" THEN 2 ELSE 3
                isResult(c) == c.value.type \notin {"onlyLocal", "onlyRemote"}
                results == SelectSeq(tree.children, isResult)
                names == [i \in DOMAIN results |-> Last(results[i].value.localPath)]
                wanted(n) == /\ n \in RemoteNames(t)
                             /\ tasks[t].recursive
                             /\ tasks[Append(t, n)].result # Undefined
            IN /\ \A i, j \in DOMAIN kinds : i < j => rank(kinds[i]) <= rank(kinds[j])
               /\ names = SelectSeq(readdir(local, t, lorder), wanted)
               /\ \A i \in DOMAIN results :
                     results[i] = tasks[Append(t, names[i])].result

\* a container holds two recursive results, and the child comparison of the second
\* settled before that of the first
C10_Witness ==
    \E t \in DirTasks :
        /\ tasks[t].pc = "done" /\ tasks[t].result # Undefined
        /\ Len(tasks[t].both) = 2
        /\ Len(tasks[t].result.children) = 2
        /\ \E i, j \in DOMAIN settled :
              /\ i < j
              /\ settled[i] = Append(t, tasks[t].both[2])
              /\ settled[j] = Append(t, tasks[t].both[1])

\* the names of the local directory a diffDirectories call compares
LocalNames(t) == DOMAIN Lookup(local, t).kids

\* C11: with recursive = false, diffDirectories compares the one-level name sets only:
\* no diffPaths call is made for a common name (no further stat, read or listing), the
\* result holds onlyLocal and onlyRemote leaves only and is absent when the name sets
\* are equal, whatever the common names hold.  With recursive = true every common
\* name of every directory compared is itself compared with recursive = true.
C11_RecursiveFlag ==
    /\ ~darg.recursive =>
          /\ DOMAIN tasks = {<<>>}
          /\ (<<>> \in DirTasks /\ tasks[<<>>].pc = "done") =>
                LET tree == tasks[<<>>].result
                    L == LocalNames(<<>>)
                    R == RemoteNames(<<>>)
                    leaves(kind) == {i \in DOMAIN tree.children :
                                        tree.children[i].value.type = kind}
                IN /\ tasks[<<>>].calls = <<"loadPath", "stat", "list", "readdir">>
                   /\ (tree = Undefined) = (L = R)
                   /\ tree # Undefined =>
                         /\ DOMAIN tree.children = leaves("onlyLocal") \cup leaves("onlyRemote")
                         /\ {tree.children[i].value.localPath : i \in leaves("onlyLocal")}
                               = {<<n>> : n \in L \ R}
                         /\ {tree.children[i].value.remotePath : i \in leaves("onlyRemote")}
                               = {<<n>> : n \in R \ L}
    /\ darg.recursive =>
          /\ \A t \in DOMAIN tasks : tasks[t].recursive
          /\ \A t \in DirTasks :
                (tasks[t].pc \in {"join", "done"} /\ Lookup(local, t).kind = "dir") =>
                    \A n \in LocalNames(t) \cap RemoteNames(t) :
                        /\ Append(t, n) \in DOMAIN tasks
                        /\ tasks[t].pc = "done" => tasks[Append(t, n)].pc = "done"

\* a diff without recursive returned absent for two directories with the same names,
\* one of which holds different things on the two sides
C11_Witness ==
    /\ ~darg.recursive
    /\ <<>> \in DirTasks
    /\ tasks[<<>>].pc = "done" /\ tasks[<<>>].result = Undefined
    /\ \E n \in LocalNames(<<>>) \cap RemoteNames(<<>>) :
          Lookup(local, <<n>>) # Lookup(remote, Append(Resolve(darg.remotePath), n))

\* the common names of the directories compared at t that are a directory on one
\* side and a regular file on the other
Mismatching(t) ==
    {n \in LocalNames(t) \cap RemoteNames(t) :
        LET l == Lookup(local, Append(t, n)).kind
            r == Lookup(remote, Append(Resolve(EntryPath(tasks[t].remote)), n)).kind
        IN {l, r} = {"file", "dir"}}

\* C13: during a recursive diff a name that is a directory locally and a file
\* remotely, or a file locally and a directory remotely, does not make diffPaths fail:
\* the comparison of the directory completes, its result holds a type Difference for
\* the name, and the results of the sibling names are in the same result.
C13_TypeMismatchIsData ==
    \A t \in DirTasks :
        (tasks[t].recursive /\ Settled(t) /\ Lookup(local, t).kind = "dir"
            /\ Mismatching(t) # {}) =>
            /\ tasks[t].pc = "done"
            /\ \A n \in Mismatching(t) :
                  \E i \in DOMAIN tasks[t].result.children :
                      /\ tasks[t].result.children[i].value.type = "type"
                      /\ tasks[t].result.children[i].value.localPath = Append(t, n)
            /\ \A n \in (LocalNames(t) \cap RemoteNames(t)) \ Mismatching(t) :
                  tasks[Append(t, n)].result # Undefined =>
                      \E i \in DOMAIN tasks[t].result.children :
                          tasks[t].result.children[i] = tasks[Append(t, n)].result

\* the remote object the diff command was given
RemoteRoot == Lookup(remote, Resolve(darg.remotePath))

\* C14: Diff idempotence.  When the local tree is an identical copy of the remote
\* content (same names at every level, same kinds, same bytes in every file),
\* diffPaths returns absent, with recursive = true and with recursive = false.
C14_DiffIdempotence ==
    (local = RemoteRoot /\ Settled(<<>>)) =>
        /\ tasks[<<>>].pc = "done"
        /\ tasks[<<>>].result = Undefined

\* a recursive diff of a directory that holds a file and a subdirectory with a file
\* against its identical copy has returned absent
C14_Witness ==
    /\ local = RemoteRoot
    /\ darg.recursive
    /\ tasks[<<>>].pc = "done" /\ tasks[<<>>].result = Undefined
    /\ \E n, m \in Names :
          /\ <<n>> \in FileTasks /\ tasks[<<n>>].pc = "done"
          /\ <<m, "a">> \in FileTasks /\ tasks[<<m, "a">>].pc = "done"

----------------------------------------------------------------------------
(* The helpers of util.ts, called on their own *)

SeqsUpTo(S, n) == UNION {[1..k -> S] : k \in 0..n}

\* the elements of the arrays given to arrayDiff, the bytes given to arrayToHex and
\* the characters of the strings given to hexToArray
Items == {"a", "b", "c"}
Bytes == {0, 10, 171, 255}
Chars == {"0", "9", "a", "A", "f", "F", "g"}

\* hexToArray(hex): decode(hexDecoder, hex) throws the decoder's failure
hexToArray(hex) ==
    LET decoded == hexDecoder(hex)
    IN IF decoded.ok THEN Returned(decoded.value) ELSE Thrown("Malformed digest", <<>>)

\* a call of a helper, and the record of a call that has completed
HelperCall(fn, args) == [fn |-> fn, args |-> args]
Completed(call, ret) == [fn |-> call.fn, args |-> call.args, ret |-> ret]

\* arrayDiff(left, right)
ArrayDiffCall ==
    /\ pc = "call"
    /\ cur.fn = "arrayDiff"
    /\ LET ret == Returned(arrayDiff(cur.args[1], cur.args[2]))
       IN /\ log' = Append(log, Completed(cur, ret))
          /\ outcome' = ret
    /\ pc' = "done"
    /\ UNCHANGED <<local, remote, lorder, rorder, options, remoteArg, run, stack, cur,
                   prev, interfered, tasks, settled, darg>>

\* arrayToHex(array); what a first call returns is given to hexToArray
ArrayToHexCall ==
    /\ pc = "call"
    /\ cur.fn = "arrayToHex"
    /\ LET ret == Returned(arrayToHex(cur.args[1]))
       IN /\ log' = Append(log, Completed(cur, ret))
          /\ outcome' = ret
          /\ IF log = <<>>
             THEN pc' = pc /\ cur' = HelperCall("hexToArray", <<ret.result>>)
             ELSE pc' = "done" /\ cur' = cur
    /\ UNCHANGED <<local, remote, lorder, rorder, options, remoteArg, run, stack,
                   prev, interfered, tasks, settled, darg>>

\* hexToArray(hex); what a first call returns is given to arrayToHex
HexToArrayCall ==
    /\ pc = "call"
    /\ cur.fn = "hexToArray"
    /\ LET ret == hexToArray(cur.args[1])
       IN /\ log' = Append(log, Completed(cur, ret))
          /\ outcome' = ret
          /\ IF log = <<>> /\ ret.status = "ok"
             THEN pc' = pc /\ cur' = HelperCall("arrayToHex", <<ret.result>>)
             ELSE pc' = "done" /\ cur' = cur
    /\ UNCHANGED <<local, remote, lorder, rorder, options, remoteArg, run, stack,
                   prev, interfered, tasks, settled, darg>>

\* the prefixes of a typed path, and strings that are nearly one
LocalPrefix == <<"l", "o", "c", "a", "l", ":">>
RemotePrefix == <<"r", "e", "m", "o", "t", "e", ":">>
Prefixes == {<<>>, LocalPrefix, RemotePrefix, <<"l", "o", "c", "a", "l">>,
             <<"L", "o", "c", "a", "l", ":">>}

\* String.prototype.startsWith and substring(from)
startsWith(string, prefix) ==
    Len(string) >= Len(prefix) /\ SubSeq(string, 1, Len(prefix)) = prefix
substring(string, from) == SubSeq(string, from + 1, Len(string))

\* a parse that cuts both prefixes after six characters
parseTypedPathSameCut(path) ==
    IF startsWith(path, LocalPrefix) THEN [type |-> "local", path |-> substring(path, 6)]
    ELSE IF startsWith(path, RemotePrefix)
         THEN [type |-> "remote", path |-> substring(path, 6)]
    ELSE [type |-> "undefined", path |-> path]

\* parseTypedPath(path): [type, path]
parseTypedPath(path) ==
    IF startsWith(path, LocalPrefix) THEN [type |-> "local", path |-> substring(path, 6)]
    ELSE IF startsWith(path, RemotePrefix)
         THEN [type |-> "remote", path |-> substring(path, 7)]
    ELSE [type |-> "undefined", path |-> path]

\* parseTypedPath(path)
ParseTypedPathCall ==
    /\ pc = "call"
    /\ cur.fn = "parseTypedPath"
    /\ LET ret == Returned(parseTypedPath(cur.args[1]))
       IN /\ log' = Append(log, Completed(cur, ret))
          /\ outcome' = ret
    /\ pc' = "done"
    /\ UNCHANGED <<local, remote, lorder, rorder, options, remoteArg, run, stack, cur,
                   prev, interfered, tasks, settled, darg>>

UtilInit ==
    /\ cur \in {HelperCall("arrayDiff", <<l, r>>) :
                    l \in SeqsUpTo(Items, MaxArrayLen), r \in SeqsUpTo(Items, MaxArrayLen)}
          \cup {HelperCall("arrayToHex", <<b>>) : b \in SeqsUpTo(Bytes, MaxArrayLen)}
          \cup {HelperCall("hexToArray", <<h>>) : h \in SeqsUpTo(Chars, MaxHexLen)}
          \cup {HelperCall("parseTypedPath", <<first \o second \o rest>>) :
                    first \in Prefixes, second \in Prefixes,
                    rest \in SeqsUpTo({"a", ":", "/"}, MaxPathLen)}
    /\ pc = "call"
    /\ log = <<>>
    /\ outcome = Running
    /\ prev = Running
    /\ local = Missing
    /\ remote = Dir(EmptyKids)
    /\ lorder = <<>>
    /\ rorder = <<>>
    /\ options = [recursive |-> FALSE, overwrite |-> FALSE]
    /\ remoteArg = <<>>
    /\ run = 1
    /\ stack = <<>>
    /\ interfered = FALSE
    /\ tasks = NoTasks
    /\ settled = <<>>
    /\ darg = [recursive |-> FALSE, remotePath |-> <<>>]

UtilNext ==
    \/ ArrayDiffCall
    \/ ArrayToHexCall
    \/ HexToArrayCall
    \/ ParseTypedPathCall

UtilSpec == UtilInit /\ [][UtilNext]_vars

----------------------------------------------------------------------------
(* Properties of the helpers *)

NoDuplicate(s) == Cardinality(Elems(s)) = Len(s)

\* C12: Set-difference correctness of arrayDiff(left, right).  With L and R the sets
\* of elements of left and right: onlyLeft = L \ R, onlyRight = R \ L and
\* both = L \cap R as sets, no result holds an element twice,
\* |onlyLeft| + |both| = |L|, |onlyRight| + |both| = |R|, and the arrays given are as
\* they were after the call.
C12_ArrayDiffIsSetDifference ==
    \A i \in DOMAIN log :
        log[i].fn = "arrayDiff" =>
            LET L == Elems(log[i].args[1])
                R == Elems(log[i].args[2])
                d == log[i].ret.result
            IN /\ log[i].ret.status = "ok"
               /\ Elems(d.onlyLeft) = L \ R
               /\ Elems(d.onlyRight) = R \ L
               /\ Elems(d.both) = L \cap R
               /\ NoDuplicate(d.onlyLeft) /\ NoDuplicate(d.onlyRight) /\ NoDuplicate(d.both)
               /\ Len(d.onlyLeft) + Len(d.both) = Cardinality(L)
               /\ Len(d.onlyRight) + Len(d.both) = Cardinality(R)
               /\ cur.args = log[i].args

\* arrayDiff has returned for two arrays that each hold an element twice, with an
\* element on the left only, one on the right only and one on both sides
C12_Witness ==
    \E i \in DOMAIN log :
        /\ log[i].fn = "arrayDiff"
        /\ ~NoDuplicate(log[i].args[1]) /\ ~NoDuplicate(log[i].args[2])
        /\ log[i].ret.result.onlyLeft # <<>>
        /\ log[i].ret.result.onlyRight # <<>>
        /\ log[i].ret.result.both # <<>>

\* the round trip that starts with arrayToHex has run to its end
BytesRoundTripDone == pc = "done" /\ log # <<>> /\ log[1].fn = "arrayToHex"

\* the statement of C19 for every byte array of even length, the empty one included
C19_BytesRoundTripEvenLength ==
    (BytesRoundTripDone /\ Len(log[1].args[1]) % 2 = 0) =>
        /\ Len(log) = 2
        /\ log[2].fn = "hexToArray"
        /\ log[2].args[1] = log[1].ret.result
        /\ log[2].ret = Returned(log[1].args[1])

\* C19: Hex round trip from bytes.  For every byte array b that is not empty (of even
\* length or not), hexToArray(arrayToHex(b)) succeeds and equals b.
C19_BytesRoundTrip ==
    (BytesRoundTripDone /\ log[1].args[1] # <<>>) =>
        /\ Len(log) = 2
        /\ log[2].fn = "hexToArray"
        /\ log[2].args[1] = log[1].ret.result
        /\ log[2].ret = Returned(log[1].args[1])

\* the round trip of a byte array of two bytes, one of them below 16, has ended
C19_Witness ==
    /\ BytesRoundTripDone
    /\ Len(log[1].args[1]) = 2
    /\ \E i \in 1..2 : log[1].args[1][i] \in 1..15
    /\ log[2].ret.status = "ok"

\* a string of hexadecimal digits of either case
ValidHex(hex) == \A i \in DOMAIN hex : HexVal(hex[i]) >= 0

\* String.prototype.toLowerCase on a hex string
toLowerCase(hex) ==
    [i \in DOMAIN hex |->
        IF \E d \in 1..16 : UpperDigits[d] = hex[i]
        THEN HexDigits[CHOOSE d \in 1..16 : UpperDigits[d] = hex[i]]
        ELSE hex[i]]

\* the round trip that starts with hexToArray has run to its end
HexRoundTripDone == pc = "done" /\ log # <<>> /\ log[1].fn = "hexToArray"

\* the statement of C20 for every valid hex string of even length, the empty one
\* included
C20_HexRoundTripEvenLength ==
    (HexRoundTripDone /\ Len(log[1].args[1]) % 2 = 0 /\ ValidHex(log[1].args[1])) =>
        /\ Len(log) = 2
        /\ log[2].fn = "arrayToHex"
        /\ log[2].args[1] = log[1].ret.result
        /\ log[2].ret = Returned(toLowerCase(log[1].args[1]))

\* C20: Hex round trip from strings.  For every valid hex string s of even length
\* that is not empty, arrayToHex(hexToArray(s)) is s in lower case, and so s itself
\* when s is in lower case.
C20_HexRoundTrip ==
    (HexRoundTripDone /\ Len(log[1].args[1]) % 2 = 0 /\ ValidHex(log[1].args[1])
        /\ log[1].args[1] # <<>>) =>
        /\ Len(log) = 2
        /\ log[2].fn = "arrayToHex"
        /\ log[2].args[1] = log[1].ret.result
        /\ log[2].ret = Returned(toLowerCase(log[1].args[1]))
        /\ log[1].args[1] = toLowerCase(log[1].args[1]) =>
              log[2].ret.result = log[1].args[1]

\* the round trip of a string of four digits, some of them in upper case, has ended
C20_Witness ==
    /\ HexRoundTripDone
    /\ Len(log) = 2
    /\ Len(log[1].args[1]) = 4
    /\ log[1].args[1] # toLowerCase(log[1].args[1])
    /\ log[2].ret.status = "ok"

----------------------------------------------------------------------------
(* The storage client and the entries, called on their own *)

\* the server's answer to DELETE: [status, store]; a directory goes with all it holds
ServerDelete(store, path) ==
    LET names == Resolve(path)
    IN IF names = <<>> THEN [status |-> 400, store |-> store]
       ELSE IF Lookup(store, names).kind = "none" THEN [status |-> 404, store |-> store]
       ELSE [status |-> 200, store |-> Remove(store, names)]

\* the server's answer to GET: [status, etag, body]; only a file comes with an ETag
ServerGet(store, path) ==
    LET node == Lookup(store, Resolve(path))
    IN IF node.kind = "none" THEN [status |-> 404, etag |-> FALSE, body |-> 0]
       ELSE IF node.kind = "file" THEN [status |-> 200, etag |-> TRUE, body |-> node.data]
       ELSE [status |-> 200, etag |-> FALSE, body |-> 0]

\* the server answers DESCRIBE with an error of its own
ServerError == [status |-> 500, json |-> Null]

\* a delete that asks for nothing
entryDeleteUnguarded(entry, args) == "DELETE"

\* AbstractBunnyEntry.delete(recursive = false): the error it throws, or the request
entryDelete(entry, args) ==
    LET recursive == IF args = <<>> THEN FALSE ELSE args[1]
    IN IF entry.type = "dir" /\ ~recursive THEN "RecursiveRequired" ELSE "DELETE"

\* AbstractBunnyEntry.download(validate?): validate && this.checksum
expectedChecksum(entry, args) ==
    IF args # <<>> /\ args[1] THEN entry.checksum ELSE Null

\* BunnyStorage.download(path, expectedChecksum) once the response to GET is there
download(path, expected, response) ==
    IF response.status \notin 200..299 THEN Thrown("Transport", path)
    ELSE IF ~response.etag THEN Thrown("ExpectedFile", path)
    ELSE IF expected # Null /\ ~arrayEquals(expected, SHA256(response.body))
         THEN Thrown("ChecksumMismatch", path)
    ELSE Returned(response.body)

\* BunnyStorage.upload(path, body): [outcome, store]
upload(store, path, body) ==
    IF endsWithSlash(path)
    THEN [outcome |-> Thrown("UploadDirectory", path), store |-> store]
    ELSE LET checksum == computeChecksum(body)
             response == ServerPut(store, path, body, toUpperCase(arrayToHex(checksum)))
             described == describe(response.store, path)
         IN IF response.status >= 300
            THEN [outcome |-> Thrown("Transport", path), store |-> store]
            ELSE [store |-> response.store,
                  outcome |->
                     IF described.error # "" THEN Thrown(described.error, path)
                     ELSE IF described.entry.checksum = Null THEN Thrown("TypeError", path)
                     ELSE IF ~arrayEquals(checksum, described.entry.checksum)
                          THEN Thrown("ChecksumMismatch", path)
                     ELSE Returned(described.entry)]

\* a call on the storage client: the method, its arguments, the entry it works on and
\* the status of the response to its DESCRIBE request
ClientCall(fn, args) == [fn |-> fn, args |-> args, entry |-> Undefined, status |-> 0]

\* storage.describe(path) and storage.maybeDescribe(path); the server answers for what
\* it holds at the path, or with an error of its own
ClientDescribe ==
    /\ pc = "call"
    /\ cur.fn \in {"describe", "maybeDescribe"}
    /\ LET path == cur.args[1]
       IN IF endsWithSlash(path)
          THEN /\ outcome' = Thrown("FileExpected", path)
               /\ UNCHANGED <<log, cur>>
          ELSE \E response \in {ServerDescribe(remote, path), ServerError} :
                  LET probed == maybeDescribeResponse(response)
                      r == IF cur.fn = "describe" THEN describeFound(probed) ELSE probed
                  IN /\ log' = Append(log, Call("DESCRIBE", path))
                     /\ cur' = [cur EXCEPT !.status = response.status]
                     /\ outcome' = IF r.error = "" THEN Returned(r.entry)
                                   ELSE Thrown(r.error, path)
    /\ pc' = "done"
    /\ UNCHANGED <<local, remote, lorder, rorder, options, remoteArg, run, stack,
                   prev, interfered, tasks, settled, darg>>

\* storage.cd(path = "/")
ClientCd ==
    /\ pc = "call"
    /\ cur.fn = "cd"
    /\ LET path == IF cur.args = <<>> THEN <<"/">> ELSE cur.args[1]
           e == cd(path)
       IN outcome' = IF EntryInvariant(e) THEN Returned(e) ELSE Thrown("Invariant", path)
    /\ pc' = "done"
    /\ UNCHANGED <<local, remote, lorder, rorder, options, remoteArg, run, stack, cur,
                   log, prev, interfered, tasks, settled, darg>>

\* a record of the server is decoded and the entry constructed from it
ClientParseEntry ==
    /\ pc = "call"
    /\ cur.fn = "parseEntry"
    /\ LET parsed == parseEntry(cur.args[1])
       IN outcome' = IF parsed.ok THEN Returned(parsed.entry) ELSE Thrown("Decode", <<>>)
    /\ pc' = "done"
    /\ UNCHANGED <<local, remote, lorder, rorder, options, remoteArg, run, stack, cur,
                   log, prev, interfered, tasks, settled, darg>>

\* storage.upload(path, body)
ClientUpload ==
    /\ pc = "call"
    /\ cur.fn = "upload"
    /\ LET r == upload(remote, cur.args[1], cur.args[2])
       IN /\ outcome' = r.outcome
          /\ remote' = r.store
          /\ log' = IF endsWithSlash(cur.args[1]) THEN log
                    ELSE IF r.outcome = Thrown("Transport", cur.args[1])
                         THEN Append(log, Call("PUT", cur.args[1]))
                    ELSE log \o <<Call("PUT", cur.args[1]), Call("DESCRIBE", cur.args[1])>>
    /\ pc' = "done"
    /\ UNCHANGED <<local, lorder, rorder, options, remoteArg, run, stack, cur,
                   prev, interfered, tasks, settled, darg>>

\* the rm command and a download start with loadPath(storage, path), which gives the
\* entry the method is then called on
ClientLoadPath ==
    /\ pc = "call"
    /\ cur.fn \in {"delete", "download"}
    /\ LET path == cur.args[1]
           r == loadPath(remote, path)
       IN /\ log' = IF endsWithSlash(path) THEN log ELSE Append(log, Call("DESCRIBE", path))
          /\ IF r.error # ""
             THEN /\ outcome' = Thrown(r.error, path)
                  /\ pc' = "done"
                  /\ cur' = cur
             ELSE /\ outcome' = outcome
                  /\ pc' = "loaded"
                  /\ cur' = [cur EXCEPT !.entry = r.entry]
    /\ UNCHANGED <<local, remote, lorder, rorder, options, remoteArg, run, stack,
                   prev, interfered, tasks, settled, darg>>

\* entry.delete(recursive): the check of the flag, then storage.delete(this.path)
ClientEntryDelete ==
    /\ pc = "loaded"
    /\ cur.fn = "delete"
    /\ LET path == EntryPath(cur.entry)
           decision == entryDelete(cur.entry, Tail(cur.args))
           response == ServerDelete(remote, path)
       IN IF decision # "DELETE"
          THEN /\ outcome' = Thrown(decision, path)
               /\ UNCHANGED <<log, remote>>
          ELSE /\ log' = Append(log, Call("DELETE", path))
               /\ remote' = response.store
               /\ outcome' = IF response.status \in 200..299 THEN Returned(Undefined)
                             ELSE Thrown("Transport", path)
    /\ pc' = "done"
    /\ UNCHANGED <<local, lorder, rorder, options, remoteArg, run, stack, cur,
                   prev, interfered, tasks, settled, darg>>

\* entry.download(validate): storage.download(this.path, validate && this.checksum)
ClientEntryDownload ==
    /\ pc = "loaded"
    /\ cur.fn = "download"
    /\ LET path == EntryPath(cur.entry)
       IN IF cur.entry.type = "dir"
          THEN /\ outcome' = Thrown("CannotDownloadDirectory", path)
               /\ log' = log
          ELSE IF endsWithSlash(path)
          THEN /\ outcome' = Thrown("FileExpected", path)
               /\ log' = log
          ELSE /\ log' = Append(log, Call("GET", path))
               /\ outcome' = download(path, expectedChecksum(cur.entry, Tail(cur.args)),
                                      ServerGet(remote, path))
    /\ pc' = "done"
    /\ UNCHANGED <<local, remote, lorder, rorder, options, remoteArg, run, stack, cur,
                   prev, interfered, tasks, settled, darg>>

\* another client of the storage zone uploads or deletes while the entry is held
ClientRemoteChange ==
    /\ pc = "loaded"
    /\ ~interfered
    /\ \E names \in {<<"a">>, <<"b">>, <<"a", "a">>} :
          \/ \E c \in Contents :
                remote' = ServerPut(remote, Slashed(names), c, arrayToHex(SHA256(c))).store
          \/ remote' = Remove(remote, names)
    /\ remote' # remote
    /\ interfered' = TRUE
    /\ UNCHANGED <<local, lorder, rorder, options, remoteArg, run, pc, stack, cur,
                   log, outcome, prev, tasks, settled, darg>>

\* the paths given to the storage client; <<>> is the empty string
ClientPaths ==
    {<<"/">>, <<"/", "a">>, <<"/", "a", "/">>, <<"/", "a", "/", "a">>, <<"/", "b">>, <<"a">>}

\* the records a server may send, well-formed or not
ServerRecords ==
    [Path : {<<"/", "zone", "/">>, <<"/", "zone", "/", "a", "/">>,
             <<"/", "zone", "/", "a">>, <<"/", "elsewhere", "/">>},
     ObjectName : {"a"},
     IsDirectory : BOOLEAN,
     Checksum : {Null, <<>>, <<"0", "g">>} \cup
                {toUpperCase(arrayToHex(SHA256(c))) : c \in Contents}]

ClientInit ==
    /\ remote \in DiffRemoteTrees
    /\ \/ \E fn \in {"describe", "maybeDescribe"}, path \in ClientPaths :
             cur = ClientCall(fn, <<path>>)
       \/ \E args \in {<<>>, <<<<>>>>} \cup {<<path>> : path \in ClientPaths} :
             cur = ClientCall("cd", args)
       \/ \E json \in ServerRecords : cur = ClientCall("parseEntry", <<json>>)
       \/ \E path \in ClientPaths, body \in Contents :
             cur = ClientCall("upload", <<path, body>>)
       \/ \E fn \in {"delete", "download"}, path \in ClientPaths,
             flag \in {<<>>, <<TRUE>>, <<FALSE>>} :
             cur = ClientCall(fn, <<path>> \o flag)
    /\ pc = "call"
    /\ log = <<>>
    /\ outcome = Running
    /\ prev = Running
    /\ local = Missing
    /\ lorder = <<>>
    /\ rorder = <<>>
    /\ options = [recursive |-> FALSE, overwrite |-> FALSE]
    /\ remoteArg = <<>>
    /\ run = 1
    /\ stack = <<>>
    /\ interfered = FALSE
    /\ tasks = NoTasks
    /\ settled = <<>>
    /\ darg = [recursive |-> FALSE, remotePath |-> <<>>]

ClientNext ==
    \/ ClientDescribe
    \/ ClientCd
    \/ ClientParseEntry
    \/ ClientUpload
    \/ ClientLoadPath
    \/ ClientEntryDelete
    \/ ClientEntryDownload
    \/ ClientRemoteChange

ClientSpec == ClientInit /\ [][ClientNext]_vars

----------------------------------------------------------------------------
(* Properties of the storage client *)

\* the entries that exist: what describe, maybeDescribe, cd, the decoding of a record
\* or an upload returned, and the entry loadPath gave
Entries ==
    (IF pc = "done" /\ outcome.status = "ok"
        /\ cur.fn \in {"describe", "maybeDescribe", "cd", "parseEntry", "upload"}
        /\ outcome.result # Undefined
     THEN {outcome.result} ELSE {})
    \cup (IF cur.entry # Undefined THEN {cur.entry} ELSE {})

\* C15: Entry construction invariant.  Every entry that exists, decoded from a server
\* record, produced by an upload or created by cd, is a directory exactly when its
\* checksum is absent, and its parentPath is not empty and ends with "/"; a record
\* that violates either condition gives an error and no entry.  The path of the root
\* directory is exactly "/".
C15_EntryInvariant ==
    /\ \A e \in Entries :
          /\ (e.type = "dir") = (e.checksum = Null)
          /\ e.type \in {"dir", "file"}
          /\ e.parentPath # <<>>
          /\ Last(e.parentPath) = "/"
    /\ (pc = "done" /\ cur.fn = "parseEntry") =>
          LET json == cur.args[1]
          IN (json.IsDirectory # (json.Checksum = Null) \/ Last(json.Path) # "/") =>
                 outcome.status = "failed"
    /\ (pc = "done" /\ cur.fn = "cd" /\ cur.args \in {<<>>, <<<<>>>>, <<<<"/">>>>}) =>
          /\ outcome.status = "ok"
          /\ outcome.result.name = ""
          /\ EntryPath(outcome.result) = <<"/">>

\* the decoding of a record under the zone's root that says directory and carries a
\* checksum has failed
C15_Witness ==
    /\ pc = "done" /\ cur.fn = "parseEntry"
    /\ cur.args[1].Path = <<"/", "zone", "/">>
    /\ cur.args[1].IsDirectory
    /\ cur.args[1].Checksum = toUpperCase(arrayToHex(SHA256(1)))
    /\ outcome.status = "failed"

\* C16: Entry.delete on a directory entry with recursive false or omitted fails and
\* makes no remote delete call, so the remote store is as it was; with recursive true,
\* and on a file entry whatever the flag, delete makes exactly one remote call, the
\* delete of the entry's path, and no listing.
C16_DeleteNeedsRecursive ==
    [][(pc = "loaded" /\ cur.fn = "delete" /\ pc' = "done") =>
          IF cur.entry.type = "dir" /\ Tail(cur.args) # <<TRUE>>
          THEN /\ outcome'.status = "failed"
               /\ log' = log
               /\ remote' = remote
          ELSE log' = Append(log, Call("DELETE", EntryPath(cur.entry)))]_vars

\* delete() without a flag on the entry of a directory that holds a file has failed
C16_Witness ==
    /\ pc = "done" /\ cur.fn = "delete"
    /\ cur.entry # Undefined /\ cur.entry.type = "dir"
    /\ Tail(cur.args) = <<>>
    /\ Lookup(remote, Resolve(EntryPath(cur.entry))).kids # EmptyKids
    /\ outcome.status = "failed"

\* what the server holds at the path of the entry in hand
Held == Lookup(remote, Resolve(EntryPath(cur.entry)))

\* C17: FileEntry.download(true) returns bytes only if their SHA-256 checksum is the
\* entry's recorded checksum and fails with a checksum mismatch otherwise;
\* download(false) and download() return the bytes retrieved without a comparison.
C17_DownloadVerifies ==
    (pc = "done" /\ cur.fn = "download" /\ cur.entry # Undefined
        /\ cur.entry.type = "file") =>
        LET validate == Tail(cur.args) = <<TRUE>>
        IN /\ outcome.status = "ok" =>
                 /\ Held.kind = "file"
                 /\ outcome.result = Held.data
                 /\ validate => SHA256(outcome.result) = cur.entry.checksum
           /\ Held.kind = "file" =>
                 IF validate /\ SHA256(Held.data) # cur.entry.checksum
                 THEN outcome = Thrown("ChecksumMismatch", EntryPath(cur.entry))
                 ELSE outcome = Returned(Held.data)

\* download(true) has failed on a file that was rewritten after its entry was loaded
C17_Witness ==
    /\ pc = "done" /\ cur.fn = "download"
    /\ Tail(cur.args) = <<TRUE>>
    /\ interfered
    /\ outcome.status = "failed" /\ outcome.error = "ChecksumMismatch"

\* the entry of the object the server holds at the names of path
EntryAt(store, path) ==
    LET names == Resolve(path)
        node == Lookup(store, names)
    IN Entry(IF node.kind = "dir" THEN "dir" ELSE "file",
             IF Len(names) = 1 THEN <<"/">> ELSE Slashed(Front(names)),
             Last(names),
             IF node.kind = "file" THEN SHA256(node.data) ELSE Null)

\* C18: Existence probe.  For a path at which the remote store has no object (a 404
\* response) maybeDescribe returns absent and describe fails with a Not-Found error;
\* for a 2xx response both return the decoded entry; for any other status both fail.
C18_ExistenceProbe ==
    (pc = "done" /\ cur.fn \in {"describe", "maybeDescribe"}
        /\ ~endsWithSlash(cur.args[1])) =>
        LET path == cur.args[1]
        IN /\ log = <<Call("DESCRIBE", path)>>
           /\ (Lookup(remote, Resolve(path)).kind = "none" /\ cur.status # ServerError.status)
                 => cur.status = 404
           /\ IF cur.status = 404
              THEN outcome = IF cur.fn = "maybeDescribe" THEN Returned(Undefined)
                             ELSE Thrown("NotFound", path)
              ELSE IF cur.status \in 200..299
              THEN outcome = Returned(EntryAt(remote, path))
              ELSE outcome.status = "failed"

\* describe has failed with Not-Found on a 404 response
C18_Witness ==
    /\ pc = "done" /\ cur.fn = "describe"
    /\ cur.status = 404
    /\ outcome.status = "failed" /\ outcome.error = "NotFound"

----------------------------------------------------------------------------
(* Properties of the helpers: malformed digests and typed paths *)

\* C21: Malformed checksum hex is rejected.  hexToArray fails for every string that
\* is empty, has odd length or holds a character outside 0-9, a-f, A-F, and returns
\* no byte array for such a string.
C21_MalformedHexRejected ==
    \A i \in DOMAIN log :
        (log[i].fn = "hexToArray"
            /\ \/ log[i].args[1] = <<>>
               \/ Len(log[i].args[1]) % 2 # 0
               \/ ~ValidHex(log[i].args[1])) =>
            log[i].ret.status = "failed"

\* the strings that p ends with
Suffixes(p) == {SubSeq(p, k, Len(p)) : k \in 1..(Len(p) + 1)}

\* C22: parseTypedPath.  For every string s, parseTypedPath("local:" + s) is
\* ["local", s] and parseTypedPath("remote:" + s) is ["remote", s]; for every string
\* s without ":", parseTypedPath(s) is [undefined, s].
C22_ParseTypedPath ==
    \A i \in DOMAIN log :
        log[i].fn = "parseTypedPath" =>
            LET p == log[i].args[1]
                ret == log[i].ret
            IN /\ ret.status = "ok"
               /\ \A s \in Suffixes(p) :
                     /\ p = LocalPrefix \o s =>
                           ret.result = [type |-> "local", path |-> s]
                     /\ p = RemotePrefix \o s =>
                           ret.result = [type |-> "remote", path |-> s]
               /\ ":" \notin Elems(p) => ret.result = [type |-> "undefined", path |-> p]

\* parseTypedPath has returned for "remote:" followed by a string that itself starts
\* with "local:"
C22_Witness ==
    \E i \in DOMAIN log :
        /\ log[i].fn = "parseTypedPath"
        /\ startsWith(log[i].args[1], RemotePrefix \o LocalPrefix)
        /\ log[i].ret.result.type = "remote"

----------------------------------------------------------------------------
(* A sync followed by a diff of the same paths *)

\* after uploadPath has returned, the same local directory is compared with the same
\* remote path: loadPath, then diffPaths(local, entry, true)
DiffAfterSync ==
    /\ pc = "done"
    /\ outcome.status = "ok"
    /\ tasks = NoTasks
    /\ darg' = [recursive |-> TRUE, remotePath |-> remoteArg]
    /\ tasks' = [t \in {<<>>} |-> Task("loadPath", Undefined, TRUE)]
    /\ settled' = <<>>
    /\ UNCHANGED <<local, remote, lorder, rorder, uploadVars, interfered>>

\* uploadPath(local directory, R, {recursive: true, overwrite: true}), nobody else
\* changing the local tree or the remote store
SyncDiffInit ==
    /\ local \in {tree \in LocalTrees : tree.kind = "dir"}
    /\ remote \in RemoteTrees
    /\ lorder \in Perms(Names)
    /\ rorder \in Perms(Names)
    /\ options = [recursive |-> TRUE, overwrite |-> TRUE]
    /\ remoteArg \in RemoteArgs(local)
    /\ run = 1
    /\ pc = "stat"
    /\ stack = <<>>
    /\ cur = Activation(<<>>, remoteArg, options.recursive)
    /\ log = <<>>
    /\ outcome = Running
    /\ prev = Running
    /\ interfered = FALSE
    /\ tasks = NoTasks
    /\ settled = <<>>
    /\ darg = [recursive |-> FALSE, remotePath |-> <<>>]

SyncDiffNext ==
    \/ UploadPathStat
    \/ UploadDirectoryReaddir
    \/ UploadFileProbe
    \/ UploadFileRead
    \/ UploadPut
    \/ UploadDescribe
    \/ DiffAfterSync
    \/ DiffLoadPath
    \/ \E t \in DOMAIN tasks : DiffStat(t)
    \/ \E t \in DOMAIN tasks : DiffReadFile(t)
    \/ \E t \in DOMAIN tasks : DiffList(t)
    \/ \E t \in DOMAIN tasks : DiffReaddir(t)
    \/ \E t \in DOMAIN tasks : DiffJoin(t)
    \/ \E t \in DOMAIN tasks : DiffJoinRejected(t)

SyncDiffSpec == SyncDiffInit /\ [][SyncDiffNext]_vars

\* the kinds of the Differences of a tree
RECURSIVE Kinds(_)
Kinds(tree) ==
    IF tree = Undefined THEN {}
    ELSE {tree.value.type} \cup UNION {Kinds(tree.children[i]) : i \in DOMAIN tree.children}

\* C23: Remote matches local after sync.  After uploadPath(local directory, R,
\* {recursive: true, overwrite: true}) has completed successfully with no
\* interference, a recursive diffPaths of the same local directory against R holds no
\* Difference of kind contents and none of kind onlyLocal.
C23_RemoteMatchesLocalAfterSync ==
    (<<>> \in DOMAIN tasks /\ tasks[<<>>].pc = "done") =>
        /\ "contents" \notin Kinds(tasks[<<>>].result)
        /\ "onlyLocal" \notin Kinds(tasks[<<>>].result)

----------------------------------------------------------------------------
(* Properties of the sync engine: failure, order and frame *)

\* the files of a tree in the order in which uploadDirectory's loops reach them
RECURSIVE Traversal(_, _, _)
Traversal(node, path, order) ==
    IF node.kind # "dir" THEN <<path>>
    ELSE LET present(n) == n \in DOMAIN node.kids
             names == SelectSeq(order, present)
         IN Flatten([i \in DOMAIN names |->
                        Traversal(node.kids[names[i]], Append(path, names[i]), order)])

\* the files that come after p in traversal order
LaterFiles(p) ==
    LET order == Traversal(local, <<>>, lorder)
    IN {order[j] : j \in {j \in DOMAIN order : \E k \in 1..(j - 1) : order[k] = p}}

\* the storage calls and callbacks made for a file
FileOps == {"maybeDescribe", "upload", "progress"}

\* the errors of the processing of one file
FileFailures == {"OverwriteRequired", "Transport", "ChecksumMismatch"}

\* the processing of the current file is about to fail with error
FileFails(error) ==
    \/ error = "OverwriteRequired" /\ OverwriteGateCase
    \/ /\ error = "Transport"
       /\ pc = "PUT"
       /\ ~endsWithSlash(cur.remotePath)
       /\ ServerPut(remote, cur.remotePath, cur.localFile,
                    arrayToHex(SHA256(cur.localFile))).status >= 300
    \/ /\ error = "ChecksumMismatch"
       /\ pc = "DESCRIBE"
       /\ LET d == describe(remote, cur.remotePath)
          IN d.error = "" /\ d.entry.checksum \notin {Null, SHA256(cur.localFile)}

\* C24: Fail-fast sync.  When the processing of a file fails during uploadPath
\* (Overwrite-Required, transport error or checksum mismatch), uploadPath fails with
\* that error and returns no list; no probe, upload or progress callback has been made
\* for a file that comes later in traversal order, and none is made after the failure.
C24_FailFast ==
    [][/\ \A e \in FileFailures :
             (FileFails(e) /\ pc' # pc) =>
                 /\ pc' = "done"
                 /\ outcome' = Thrown(e, cur.remotePath)
                 /\ \A i \in DOMAIN log' :
                       log'[i].op \in FileOps =>
                           \A q \in LaterFiles(cur.localPath) :
                               Resolve(log'[i].path) # Destination(q)
       /\ (pc = "done" /\ outcome.status = "failed" /\ run' = run) =>
             /\ log' = log
             /\ outcome' = outcome
             /\ pc' = "done"]_vars

\* a run over a directory failed at a file that has a regular file after it
C24_Witness ==
    /\ pc = "done"
    /\ outcome.status = "failed" /\ outcome.error \in FileFailures
    /\ \E p \in FilePaths(local) :
          /\ Destination(p) = Resolve(outcome.path)
          /\ \E q \in LaterFiles(p) : Lookup(local, q).kind = "file"

\* the local paths of the files uploadPath has reached, in the order of their fs.stat
Visited ==
    LET isLeaf(e) == e.op = "stat" /\ Lookup(local, e.path).kind # "dir"
        stats == SelectSeq(log, isLeaf)
    IN [i \in DOMAIN stats |-> stats[i].path]

\* the storage.upload calls that have not completed
InFlight ==
    {i \in Calls("upload") :
        ~(i < Len(log) /\ log[i + 1] = [log[i + 1] EXCEPT !.op = "progress",
                                                          !.path = log[i].path,
                                                          !.changed = TRUE])}

\* the fs.stat of every file reached and the calls and callbacks made for it, in the
\* order of the log, each with the destination it is about
Steps ==
    LET about(e) == \/ e.op \in FileOps
                    \/ e.op = "stat" /\ Lookup(local, e.path).kind # "dir"
        events == SelectSeq(log, about)
    IN [i \in DOMAIN events |->
           [op |-> events[i].op,
            at |-> IF events[i].op = "stat" THEN Destination(events[i].path)
                   ELSE Resolve(events[i].path)]]

\* C25: within one uploadPath run the children of a directory are processed one after
\* the other in local listing order, each child's subtree before the next child: the
\* files are reached in traversal order, every call for a file is made after the file
\* is reached and before the next file is, at most one storage.upload is in flight,
\* and no destination path receives more than one upload.
C25_SequentialInListingOrder ==
    LET order == Traversal(local, <<>>, lorder)
        visited == Visited
        steps == Steps
        uploads == Calls("upload")
        inFlight == InFlight
    IN /\ Len(visited) <= Len(order)
       /\ visited = SubSeq(order, 1, Len(visited))
       /\ \A i \in DOMAIN steps :
             IF steps[i].op = "stat"
             THEN i > 1 => steps[i].at # steps[i - 1].at
             ELSE i > 1 /\ steps[i].at = steps[i - 1].at
       /\ Cardinality(inFlight) <= 1
       /\ inFlight # {} => (pc \in {"DESCRIBE", "done"} /\ inFlight = {Len(log)})
       /\ \A i, j \in uploads :
             Resolve(log[i].path) = Resolve(log[j].path) => i = j

\* the second upload of a run is in flight, the first file's subtree being complete
C25_Witness ==
    /\ pc = "DESCRIBE"
    /\ Cardinality(Calls("upload")) = 2
    /\ Len(Visited) = 2
    /\ \E p \in DOMAIN Visited : Len(Visited[p]) = 2

\* the calls uploadPath makes: the local filesystem's, the storage client's probe and
\* upload, the progress callback, and cd, which makes no request
SyncOps == {"stat", "cd", "readdir", "readFile", "maybeDescribe", "upload", "progress"}

----------------------------------------------------------------------------
(* Properties of the diff engine: the join and the order of the children *)

\* C26: a recursive diffDirectories decides its own outcome (absent, container or
\* failure) only after every child comparison it started for the names of both has
\* completed: no child comparison is still running when the parent's result or error
\* is delivered.
C26_JoinWaitsForEveryChild ==
    \A t \in DOMAIN tasks :
        Settled(t) =>
            \A i \in DOMAIN tasks[t].both : Settled(Append(t, tasks[t].both[i]))

\* the names of the model in lexical order, and the place of a name in it
Lexical == <<"a", "b">>
LexicalRank(name) == CHOOSE i \in DOMAIN Lexical : Lexical[i] = name

\* the name a child of a container is about
ChildName(child) ==
    IF child.value.type = "onlyRemote" THEN Last(child.value.remotePath)
    ELSE Last(child.value.localPath)

\* C27: Reproducible ordering.  Whatever order the local directory listing and the
\* remote listing return their names in, the children of a container appear, within
\* each group (onlyLocal, onlyRemote, recursive results), in the lexical order of
\* their names.
C27_LexicalOrder ==
    \A t \in DirTasks :
        (tasks[t].pc = "done" /\ tasks[t].result # Undefined) =>
            LET children == tasks[t].result.children
                group(c) == IF c.value.type \in {"onlyLocal", "onlyRemote"}
                            THEN c.value.type ELSE "result"
            IN \A i, j \in DOMAIN children :
                  (i < j /\ group(children[i]) = group(children[j]))
                     => LexicalRank(ChildName(children[i]))
                           < LexicalRank(ChildName(children[j]))

====
